---- MODULE Spec2Model ----
(***************************************************************************)
(* A model of surf's request pipeline: Client (src/src/client.rs), the     *)
(* middleware chain Next (src/src/middleware/mod.rs), the middleware built *)
(* on it (Logger, Redirect, the Doubler example), and the cache middleware *)
(* Cacache (src/src/cache.rs).                                             *)
(*                                                                         *)
(* One send is executed as a call stack of frames.  A frame is one pending *)
(* call: Client::send, a Middleware::handle, or the endpoint closure that  *)
(* calls the HttpClient.  `ret` carries the value a finished callee hands  *)
(* to the frame below it.  `trace` records, for the send in flight or just *)
(* finished, every handle entry, handle exit, URL rewrite and HttpClient   *)
(* call, in program order.                                                 *)
(***************************************************************************)
EXTENDS Integers, Sequences, FiniteSets, TLC

VARIABLES
    env,        \* what the application and the server may do: [kinds, replies,
                \* methods, lim]
    attempts,   \* Redirect.attempts, fixed by Redirect::new
    clients,    \* Client values: [live, http_client, middleware (an Arc address)]
    arcs,       \* the heap of Arc<Vec<Arc<dyn Middleware>>>: [vec, strong]
    used,       \* used[c]: c has sent at least one request
    lateWith,   \* lateWith[c]: with() pushed onto c after c had sent
    ownLog,     \* ownLog[c]: what c was given by with() and by clone()
    panicked,   \* the expect() in Client::with fired
    stack,      \* the call stack of the send in flight
    ret,        \* the value being returned to the top frame
    trace,      \* events of the send in flight or just finished
    outcome,    \* what the top-level Client::send returned
    cur,        \* the send in flight or just finished: client, lists, request
    nsends,     \* top-level sends started
    cacache,    \* the Cacache middleware: [cache_mode, headers]
    store,      \* the cacache store at Cacache.path: key -> entry
    call,       \* the Cacache::send in flight or just finished
    writers,    \* the Cacache::put calls in flight or just finished
    zip,        \* the Compression::handle in flight or just finished
    parked,     \* the Client::send futures that are not being polled
    bodies,     \* a Response and a Request in the application's hands
    conf        \* a Config, the Client made of it and the request it builds

vars == <<env, attempts, clients, arcs, used, lateWith, ownLog,
          panicked, stack, ret, trace, outcome, cur, nsends,
          cacache, store, call, writers, zip, parked, bodies, conf>>

----------------------------------------------------------------------------
(* Bounds *)

MaxMw == 2
MaxReqMw == 1
MaxSends == 2
MaxAttempts == 2
MaxRedirectMw == 2
MaxRedirectSends == 1
MaxDoublerMw == 2
MaxCacheSends == 2
MaxCachePuts == 1
MaxEncodings == 2
MaxChunks == 2
MaxConcurrent == 2
MaxConcurrentMw == 1
MaxReads == 3
MaxRequests == 2

----------------------------------------------------------------------------
(* Values *)

\* The middleware implementations the application links in
kinds == env.kinds
\* What the server behind the HttpClient may answer
replies == env.replies
\* The methods of the requests the application sends
methods == env.methods
\* How many middleware the application registers, per client and per
\* request, and how many requests it sends
lim == env.lim

ClientIds == {"c1", "c2"}
Transports == {"T1", "T2"}

\* mw_1, mw_2 of tests/test.rs and a third of the same shape
Markers == {"A", "B", "C"}
\* Middleware that call next.run once and hand its result on
PassThrough == Markers \cup {"L", "F"}

NoLoc == "-"
Url0 == "http://h/0"
AbsoluteLocs == {"http://h/a", "HTTP://h/b"}

\* The headers and the body a request is built with
ReqHeaders == {"x-h"}
ReqBody == "payload"
\* Body::empty()
EmptyBody == ""

SeqsUpTo(S, n) == UNION {[1..k -> S] : k \in 0..n}

NoRet == [tag |-> "none", status |-> 0, loc |-> NoLoc, ext |-> {},
          url |-> "", via |-> "", err |-> ""]
OkRes(status, loc, url, via) ==
    [tag |-> "ok", status |-> status, loc |-> loc, ext |-> {},
     url |-> url, via |-> via, err |-> ""]
ErrRes(e) == [NoRet EXCEPT !.tag = "err", !.err = e]

Reply(status, loc) == [status |-> status, loc |-> loc]
TransportFails == Reply(0, NoLoc)

NoClient == [live |-> FALSE, http_client |-> "", middleware |-> ""]
NoCur == [client |-> "", clientMw |-> <<>>, reqMw |-> <<>>, method |-> "",
          overlap |-> FALSE, after |-> FALSE]

Frame(mw, pc, req, client, next) ==
    [mw |-> mw, pc |-> pc, req |-> req, client |-> client, next |-> next,
     n |-> 0, rw |-> 0, runs |-> 0, last |-> 0, saved |-> NoRet]

Event(ev, f, got, res) ==
    [ev |-> ev, mw |-> f.mw, next |-> f.next, url |-> f.req.url,
     method |-> f.req.method, headers |-> f.req.headers, body |-> f.req.body,
     got |-> got, res |-> res, n |-> f.n, rw |-> f.rw, runs |-> f.runs,
     last |-> f.last, pc |-> f.pc, depth |-> 0]

Top == stack[Len(stack)]
Pop(s) == SubSeq(s, 1, Len(s) - 1)
SetTop(s, f) == [s EXCEPT ![Len(s)] = f]

\* The client's own vector, through its Arc
Vec(c) == arcs[clients[c].middleware].vec

----------------------------------------------------------------------------
(* Next: src/src/middleware/mod.rs *)

\* Next::run narrowing the slice by two: the middleware after `current` is lost
NextRun_skip(next, req, client) ==
    IF Len(next) >= 2
    THEN Frame(Head(next), "start", req, client, Tail(Tail(next)))
    ELSE IF next # <<>>
    THEN Frame(Head(next), "start", req, client, Tail(next))
    ELSE Frame("endpoint", "start", req, client, <<>>)

\* Next::run: split_first, narrow the slice, call handle; else the endpoint
NextRun(next, req, client) ==
    IF next # <<>>
    THEN Frame(Head(next), "start", req, client, Tail(next))
    ELSE Frame("endpoint", "start", req, client, <<>>)

\* A Next that run(self) uses up: nothing of the chain is left for a second run
NextAfterRun_consumed(next) == <<>>

\* impl Copy for Next: run(self) works on a copy, the caller keeps its Next
NextAfterRun(next) == next

----------------------------------------------------------------------------
(* Client: src/src/client.rs *)

\* Request::take_middleware: the per-request list, None when never set
take_middleware(req) == req.middleware

\* Client::send extending the stack with the request's list first
MwStack_reqFirst(client_mw, req_mw) ==
    IF req_mw # <<>> THEN req_mw \o client_mw ELSE client_mw

\* Client::send, the match on take_middleware: client list, then request list
MwStack(client_mw, req_mw) ==
    IF req_mw # <<>> THEN client_mw \o req_mw ELSE client_mw

\* A Client handed to middleware that still carries middleware of its own
ErasedClient_withMw(http_client) ==
    [http_client |-> http_client, middleware |-> <<"A">>]

\* A Client handed to middleware that carries the Redirect it is handed to
ErasedClient_withRedirect(http_client) ==
    [http_client |-> http_client, middleware |-> <<"R">>]

\* Client::send, the Client handed to middleware: same HttpClient, empty list
ErasedClient(http_client) == [http_client |-> http_client, middleware |-> <<>>]

\* A send that pushes the request's middleware onto the Client's vector
VecAfterSend_extended(vec, req_mw) == vec \o req_mw

\* Client::send, `self.middleware.iter().cloned().collect()`: mw_stack is a
\* new Vec, the Client's vector is read and stays as it is
VecAfterSend(vec, req_mw) == vec

\* Client::send up to the first await: the send frame and what next.run calls
SendFrames(self, req) ==
    LET req_mw == take_middleware(req)
        taken == [req EXCEPT !.middleware = <<>>]
        mw_stack == MwStack(self.middleware, req_mw)
        client == ErasedClient(self.http_client)
    IN  << Frame("send", "await", taken, client, mw_stack),
           NextRun(mw_stack, taken, client) >>

\* Client::send wrapping the error of the chain in one of its own
SendResult_mapErr(r) == IF r.tag = "err" THEN ErrRes("send") ELSE r

\* Client::send, `next.run(req, client).await?` then Ok(Response::new(..))
SendResult(r) == r

\* A middleware that turns the error of next.run into a response
Propagate_swallow(mw, got) ==
    IF got.tag = "err" THEN OkRes(500, NoLoc, got.url, mw)
    ELSE IF mw \in Markers THEN [got EXCEPT !.ext = @ \cup {mw}]
    ELSE got

\* redirect.rs, MAX_REDIRECTS, and the count its handle is always given
MAX_REDIRECTS == 10
redirects_followed == 0

\* StatusCode::is_redirection
is_redirection(status) == status >= 300 /\ status <= 399

\* The `?` after next.run(..).await in a middleware: an error returns as is.
\* "F" is the Redirect of redirect.rs, which fails on a redirection once
\* redirects_followed reaches MAX_REDIRECTS
Propagate(mw, got) ==
    IF got.tag = "err" THEN got
    ELSE IF mw = "F" /\ is_redirection(got.status)
                     /\ redirects_followed >= MAX_REDIRECTS
    THEN ErrRes("max redirects")
    ELSE IF mw \in Markers THEN [got EXCEPT !.ext = @ \cup {mw}]
    ELSE got

----------------------------------------------------------------------------
(* Cacache: src/src/cache.rs *)

\* enum CacheMode
CacheMode == {"Default", "NoStore", "NoCache", "Reload", "ForceCache",
              "OnlyIfCached"}

\* The request targets the application sends through the cache
CacheUrls == {Url0, "http://h/a"}
CacheMethods == {"GET", "HEAD", "POST"}

\* Header names as the application writes them on a request or configures
\* them on the middleware
HeaderNames == {"accept", "if-none-match", "If-Range"}

\* str::to_lowercase on a header name
to_lowercase(key) ==
    IF key = "If-Range" THEN "if-range"
    ELSE IF key = "If-None-Match" THEN "if-none-match"
    ELSE key

\* has_cond_header: some key, in lower case, is one of the five names
has_cond_header(headers) ==
    \E key \in headers :
        to_lowercase(key) \in {"if-modified-since", "if-none-match",
                               "if-unmodified-since", "if-match", "if-range"}

\* cache_key: format!("surf:req:v1:{}", req.uri())
cache_key(req) == "surf:req:v1:" \o req.uri

\* A Warning header value: the warn-codes of its warning-values, in order;
\* 0 stands for a value that does not start with a digit
Warnings == {<<>>, <<110>>, <<214>>, <<110, 214>>, <<214, 110>>, <<111, 113>>,
             <<0>>}

\* The metadata cacache keeps for a key: the status and the header map.
\* set_cookie is a header name with its values, one per header line
NoEntry == [status |-> 0, warning |-> <<>>, cache_control |-> "", etag |-> "",
            set_cookie |-> <<>>, body |-> <<>>]
Entries == [status : {200}, warning : Warnings,
            cache_control : {"max-age=60", "max-age=0"}, etag : {"v1"},
            set_cookie : {<<>>}, body : {<< "b" >>}]

\* put, `headers.insert(key, value)` over res.response.headers().iter(): a
\* Map holds one value for a name, each insert replaces the one before it
MapInsertAll(values) ==
    IF values = <<>> THEN <<>> ELSE << values[Len(values)] >>

\* put, the metadata value: the status and the headers, not the body
Metadata(res) == [res EXCEPT !.body = <<>>, !.set_cookie = MapInsertAll(@)]

\* What matched gives back for a response put stored whole: the status and
\* the headers of the metadata, the bytes that were written
Stored(res) == [Metadata(res) EXCEPT !.body = res.body]

\* What the network answers a send_remote with
NetOk == [NoEntry EXCEPT !.status = 200, !.cache_control = "max-age=60",
                         !.etag = "v2", !.body = << "n" >>]
NetErr == [NoEntry EXCEPT !.status = -1]

\* Result<Response, Exception> of Cacache::send
NoCacheRet == [tag |-> "none", res |-> NoEntry, via |-> "", err |-> ""]
CacheOk(res, via) == [tag |-> "ok", res |-> res, via |-> via, err |-> ""]
CacheErr(e) == [NoCacheRet EXCEPT !.tag = "err", !.err = e]

\* unimplemented!(): the call panics instead of returning; `v` is only a
\* value of the type the function is declared to return
unimplemented(v) == [panic |-> TRUE, value |-> v]

\* Cacache::response_cacheable
response_cacheable(self, res) == unimplemented(FALSE)

\* Cacache::is_stale
is_stale(self, res) == unimplemented(FALSE)

\* Cacache::set_warning
set_warning(self, res, code, msg) == unimplemented(res)

\* Cacache::send_conditional
send_conditional(self, req, cachedRes) == unimplemented(NoCacheRet)

\* request_cacheable that leaves Reload out of the modes it excludes
request_cacheable_reload(self, req) ==
    /\ req.method = "GET" \/ req.method = "HEAD"
    /\ self.cache_mode # "NoStore"

\* request_cacheable that takes GET alone
request_cacheable_getOnly(self, req) ==
    /\ req.method = "GET"
    /\ self.cache_mode # "NoStore"
    /\ self.cache_mode # "Reload"

\* Cacache::request_cacheable
request_cacheable(self, req) ==
    /\ req.method = "GET" \/ req.method = "HEAD"
    /\ self.cache_mode # "NoStore"
    /\ self.cache_mode # "Reload"

\* A send that keeps the configured mode whatever the request carries
CoerceMode_never(cache_mode, headers) == cache_mode

\* Cacache::send: Default becomes NoStore for a request with a conditional
\* header
CoerceMode(cache_mode, headers) ==
    IF cache_mode = "Default" /\ has_cond_header(headers)
    THEN "NoStore"
    ELSE cache_mode

\* A send that writes the coerced mode into the middleware it was called on
ModeAfterSend_shared(configured, coerced) == coerced

\* Cacache::send(mut self, ..): `self.cache_mode = CacheMode::NoStore` is an
\* assignment to the value send owns; the middleware keeps its mode
ModeAfterSend(configured, coerced) == configured

\* Cacache::send on a hit, the Warning header of the stored response: the
\* first value's leading digits are the code; a 1xx code removes the header
StripWarning(warning) ==
    IF warning = <<>> THEN [ok |-> TRUE, warning |-> <<>>]
    ELSE IF warning[1] = 0 THEN [ok |-> FALSE, warning |-> warning]
    ELSE IF warning[1] >= 100 /\ warning[1] < 200
    THEN [ok |-> TRUE, warning |-> <<>>]
    ELSE [ok |-> TRUE, warning |-> warning]

\* No Cacache::send in flight
NoCall == [pc |-> "idle", req |-> [method |-> "", uri |-> "", headers |-> {}],
           cache_mode |-> "", lookups |-> 0, hit |-> NoEntry, res |-> NoEntry,
           remote |-> <<>>, result |-> NoCacheRet, panic |-> "", n |-> 0,
           puts |-> 0, incoming |-> {}, net |-> NoEntry, after |-> FALSE]

\* A process without the cache middleware
NoCacache == [cache_mode |-> "", headers |-> {}]
NoStoreYet == [k \in {cache_key([uri |-> u]) : u \in CacheUrls} |-> NoEntry]

----------------------------------------------------------------------------
(* Compression: src/src/middleware/compression/compression.rs and its      *)
(* earlier form src/src/middleware/compression.rs                           *)

\* The two Compression middleware of the source, by file
Compressions == {"compression/compression.rs", "compression.rs"}

SUPPORTED_ENCODINGS == "gzip, br, deflate, zstd"

\* accept_encoding::Encoding
Encoding == {"Gzip", "Deflate", "Brotli", "Zstd", "Identity"}

\* Encoding::to_header_value
to_header_value(e) ==
    CASE e = "Gzip" -> "gzip"
      [] e = "Deflate" -> "deflate"
      [] e = "Brotli" -> "br"
      [] e = "Zstd" -> "zstd"
      [] e = "Identity" -> "identity"

\* A Content-Encoding value is held as the pieces between its commas, as
\* hval.split(',') yields them; NoHeader is a response without the header and
\* Opaque a value that HeaderValue::to_str rejects
NoHeader == << "-" >>
Opaque == << "\\xff" >>

\* A split that hands the pieces on with their blanks
trim_none(s) == s

\* str::trim
trim(s) ==
    CASE s = " br" -> "br"
      [] s = " gzip" -> "gzip"
      [] s = " gzip " -> "gzip"
      [] s = " " -> ""
      [] OTHER -> s

\* Compression::parse_encoding
parse_encoding(s) ==
    CASE s = "gzip" -> [ok |-> TRUE, enc |-> "Gzip"]
      [] s = "deflate" -> [ok |-> TRUE, enc |-> "Deflate"]
      [] s = "br" -> [ok |-> TRUE, enc |-> "Brotli"]
      [] s = "zstd" -> [ok |-> TRUE, enc |-> "Zstd"]
      [] s = "identity" -> [ok |-> TRUE, enc |-> "Identity"]
      [] OTHER -> [ok |-> FALSE, enc |-> ""]

\* A body: the plaintext, the encodings laid over it (the last one is the
\* outermost), and whether reading it yields bytes or an error
Plain(text) == [text |-> text, layers |-> <<>>, ok |-> TRUE]

\* gzip_compress, deflate_compress, brotli_compress, zstd_compress of
\* tests/utils.rs; Identity leaves the bytes as they are
Compress(e, body) ==
    IF e = "Identity" THEN body
    ELSE [body EXCEPT !.layers = Append(@, e)]

\* GzipDecoder, DeflateDecoder, BrotliDecoder, ZstdDecoder over a body: the
\* outermost layer comes off when it is the decoder's own, else the stream is
\* in error
Decoder(e, body) ==
    IF ~body.ok THEN body
    ELSE IF body.layers # <<>> /\ body.layers[Len(body.layers)] = e
    THEN [body EXCEPT !.layers = SubSeq(@, 1, Len(@) - 1)]
    ELSE [body EXCEPT !.ok = FALSE]

\* A response as Compression sees it
ZResponse(status, content_encoding, body) ==
    [status |-> status, content_encoding |-> content_encoding, body |-> body]
NoZResponse == ZResponse(0, NoHeader, Plain(""))

\* Result<Response, Exception>
NoZRet == [tag |-> "none", res |-> NoZResponse, err |-> ""]
ZOk(res) == [tag |-> "ok", res |-> res, err |-> ""]
ZErr(e) == [tag |-> "err", res |-> NoZResponse, err |-> e]
ZPanic(e) == [tag |-> "panic", res |-> NoZResponse, err |-> e]

\* No Compression::handle in flight
NoZip == [pc |-> "idle", impl |-> "", req |-> <<>>, sent |-> <<>>,
          got |-> NoZRet, applied |-> <<>>, decoded |-> FALSE,
          result |-> NoZRet, passes |-> 0, before |-> NoZRet]

\* The callers of Cacache::put that may run at once
WriterIds == {"w1", "w2"}

\* The writer cacache hands out for a key: the metadata it was opened with
\* and the bytes written to it so far
NoHandle == [metadata |-> NoEntry, data |-> <<>>]

\* No Cacache::put in flight: nothing opened, nothing written.  `order` is
\* the place of this put's commit among the commits, 0 before it; `overlap`
\* tells that another put was in flight when this one opened.
NoWriter == [pc |-> "idle", req |-> [method |-> "", uri |-> "", headers |-> {}],
             res |-> NoEntry, unread |-> <<>>, handle |-> NoHandle,
             result |-> NoCacheRet, order |-> 0, overlap |-> FALSE]
NoWriters == [w \in WriterIds |-> NoWriter]

\* The state of a Client::send future between two polls, and a future that
\* has not been polled yet
Context(s, r, t, o, c) ==
    [stack |-> s, ret |-> r, trace |-> t, outcome |-> o, cur |-> c]
NoContext == Context(<<>>, NoRet, <<>>, NoRet, NoCur)
NoParked == <<>>

----------------------------------------------------------------------------
(* Message bodies: src/src/response.rs, src/src/request.rs *)

\* The bodies a message arrives or is built with: chunks of a stream
BodyChunks == {<<>>, << "x" >>, << "x", "y" >>}

\* One read of a body by the application: the method, how it ended, the
\* bytes it returned, and whether the body had been consumed before
Read(op, tag, bytes, after) ==
    [op |-> op, tag |-> tag, bytes |-> bytes, after |-> after]

\* A Response whose body nobody has read, a Request that has not been
\* polled: Request.req is Some, Request.fut is None
NoBodies == [res |-> [unread |-> <<>>, consumed |-> FALSE],
             req |-> [some |-> TRUE, body |-> <<>>, consumed |-> FALSE,
                      fut |-> FALSE],
             log |-> <<>>]

----------------------------------------------------------------------------
(* Config and the requests of a Client made of it: src/src/config.rs,      *)
(* src/src/request_builder.rs                                              *)

ConfigHeaderNames == {"x-header-name", "accept"}
ConfigHeaderValues == {"v1", "v2"}

\* HashMap<HeaderName, HeaderValues> and the headers of a request: the
\* values under each name, none when the name is absent
NoHeaders == [h \in ConfigHeaderNames |-> <<>>]

\* A Config nothing has been added to
NoConf == [pc |-> "config", headers |-> NoHeaders, req |-> NoHeaders,
           via |-> "", sent |-> NoHeaders, n |-> 0]

----------------------------------------------------------------------------
(* Initial states *)

\* Client::with_http_client_internal: an empty list, or [Logger] when the
\* middleware-logger feature is on
InitialVecs == {<<>>} \cup (IF "L" \in kinds THEN {<<"L">>} ELSE {})

InitPipeline(k, r, m, l, ts) ==
    /\ env = [kinds |-> k, replies |-> r, methods |-> m, lim |-> l]
    /\ attempts \in (IF "R" \in k THEN 0..MaxAttempts ELSE {0})
    /\ \E t \in ts :
           clients = [c \in ClientIds |->
               IF c = "c1"
               THEN [live |-> TRUE, http_client |-> t, middleware |-> "c1"]
               ELSE NoClient]
    /\ \E v \in InitialVecs :
           /\ arcs = [a \in ClientIds |->
                  IF a = "c1" THEN [vec |-> v, strong |-> 1]
                  ELSE [vec |-> <<>>, strong |-> 0]]
           /\ ownLog = [c \in ClientIds |-> IF c = "c1" THEN v ELSE <<>>]
    /\ used = [c \in ClientIds |-> FALSE]
    /\ lateWith = [c \in ClientIds |-> FALSE]
    /\ panicked = FALSE
    /\ stack = <<>>
    /\ ret = NoRet
    /\ trace = <<>>
    /\ outcome = NoRet
    /\ cur = NoCur
    /\ nsends = 0

\* An application that does not use the cache middleware
InitWith(k, r, m, l, ts) ==
    /\ InitPipeline(k, r, m, l, ts)
    /\ cacache = NoCacache
    /\ store = NoStoreYet
    /\ call = NoCall
    /\ writers = NoWriters
    /\ zip = NoZip
    /\ parked = NoParked
    /\ bodies = NoBodies
    /\ conf = NoConf

Init ==
    InitWith({"A", "B", "C", "L", "S"},
             {Reply(200, NoLoc), Reply(302, "http://h/a"), TransportFails},
             {"GET"},
             [mw |-> MaxMw, req |-> MaxReqMw, sends |-> MaxSends],
             {"T1"})

----------------------------------------------------------------------------
(* Actions *)

Idle == ~panicked /\ stack = <<>>
Running == ~panicked /\ stack # <<>>

\* Number of Client::send calls on the stack: 1 in the chain, 2 in a request
\* a middleware sends through its Client handle
Depth == Cardinality({i \in DOMAIN stack : stack[i].mw = "send"})

Log(ev, f, got, res) == [Event(ev, f, got, res) EXCEPT !.depth = Depth]

\* Some other Client::send future has started and has not finished; each
\* borrows the Client for as long as it lives
OthersInFlight == \E i \in DOMAIN parked : parked[i].stack # <<>>

\* Client::with: Arc::get_mut(..).expect(..), then push.  with(mut self)
\* takes the Client by value, which no borrow of it may outlive
ClientWith(c, m) ==
    /\ Idle
    /\ ~OthersInFlight
    /\ clients[c].live
    /\ m \in kinds
    /\ Len(Vec(c)) < lim.mw
    /\ LET a == clients[c].middleware IN
       IF arcs[a].strong = 1
       THEN /\ arcs' = [arcs EXCEPT ![a].vec = Append(@, m)]
            /\ lateWith' = [lateWith EXCEPT ![c] = @ \/ used[c]]
            /\ ownLog' = [ownLog EXCEPT ![c] = Append(@, m)]
            /\ UNCHANGED panicked
       ELSE /\ panicked' = TRUE
            /\ UNCHANGED <<arcs, lateWith, ownLog>>
    /\ trace' = <<>>
    /\ outcome' = NoRet
    /\ cur' = NoCur
    /\ UNCHANGED <<bodies, conf, writers, zip, parked, cacache, store, call, env, attempts, clients, used, stack, ret, nsends>>

\* RequestBuilder::middleware builds the request's list; Client::send runs up
\* to its first await
SendStart(c, rm, meth) ==
    /\ Idle
    /\ meth \in methods
    /\ clients[c].live
    /\ nsends < lim.sends
    /\ rm \in SeqsUpTo(kinds, lim.req)
    /\ LET self == [http_client |-> clients[c].http_client, middleware |-> Vec(c)]
           req == [method |-> meth, url |-> Url0, middleware |-> rm,
                   headers |-> ReqHeaders, body |-> ReqBody]
       IN  /\ stack' = SendFrames(self, req)
           /\ cur' = [client |-> c, clientMw |-> Vec(c), reqMw |-> rm,
                       method |-> meth, overlap |-> OthersInFlight,
                       after |-> (cur.client = c /\ cur.reqMw # <<>>)]
    /\ arcs' = [arcs EXCEPT ![clients[c].middleware].strong = @ + 1,
                            ![clients[c].middleware].vec = VecAfterSend(@, rm)]
    /\ used' = [used EXCEPT ![c] = TRUE]
    /\ nsends' = nsends + 1
    /\ trace' = <<>>
    /\ outcome' = NoRet
    /\ ret' = NoRet
    /\ UNCHANGED <<bodies, conf, writers, zip, parked, cacache, store, call, env, attempts, clients, lateWith, ownLog, panicked>>

\* Client::send after next.run resolved; the local Arc clone is dropped
SendReturn ==
    /\ Running
    /\ Top.mw = "send"
    /\ ret # NoRet
    /\ IF Len(stack) = 1
       THEN /\ outcome' = SendResult(ret)
            /\ ret' = NoRet
            /\ arcs' = [arcs EXCEPT ![clients[cur.client].middleware].strong = @ - 1]
       ELSE /\ ret' = SendResult(ret)
            /\ UNCHANGED <<outcome, arcs>>
    /\ stack' = Pop(stack)
    /\ UNCHANGED <<bodies, conf, writers, zip, parked, cacache, store, call, env, attempts, clients, used, lateWith, ownLog,
                   panicked, trace, cur, nsends>>

\* The endpoint closure of Client::send: client.http_client.send(req)
Endpoint ==
    /\ Running
    /\ Top.mw = "endpoint"
    /\ \E rp \in replies :
         LET r == IF rp = TransportFails THEN ErrRes("transport")
                  ELSE OkRes(rp.status, rp.loc, Top.req.url, Top.client.http_client)
         IN  /\ trace' = Append(trace, Log("transport", Top, NoRet, r))
             /\ ret' = r
    /\ stack' = Pop(stack)
    /\ UNCHANGED <<bodies, conf, writers, zip, parked, cacache, store, call, env, attempts, clients, arcs, used, lateWith,
                   ownLog, panicked, outcome, cur, nsends>>

\* Logger::handle, mw_1, mw_2 before the await: call next.run(req, client)
HandlePass ==
    /\ Running
    /\ Top.mw \in PassThrough
    /\ Top.pc = "start"
    /\ trace' = Append(trace, Log("enter", Top, NoRet, NoRet))
    /\ stack' = Append(SetTop(stack, [Top EXCEPT !.pc = "await", !.runs = @ + 1]),
                       NextRun(Top.next, Top.req, Top.client))
    /\ UNCHANGED <<bodies, conf, writers, zip, parked, cacache, store, call, env, attempts, clients, arcs, used, lateWith,
                   ownLog, panicked, ret, outcome, cur, nsends>>

\* Logger::handle, mw_1, mw_2 after the await: `?`, then Ok(res)
ReturnPass ==
    /\ Running
    /\ Top.mw \in PassThrough
    /\ Top.pc = "await"
    /\ ret # NoRet
    /\ LET res == Propagate(Top.mw, ret) IN
           /\ trace' = Append(trace, Log("exit", Top, ret, res))
           /\ ret' = res
    /\ stack' = Pop(stack)
    /\ UNCHANGED <<bodies, conf, writers, zip, parked, cacache, store, call, env, attempts, clients, arcs, used, lateWith,
                   ownLog, panicked, outcome, cur, nsends>>

\* What a middleware that returns without next.run calls: nothing
ShortCircuitCalls(f) == <<>>

\* A middleware that answers by itself, with a response or with an error
HandleShort ==
    /\ Running
    /\ Top.mw = "S"
    /\ Top.pc = "start"
    /\ \E r \in {OkRes(200, NoLoc, Top.req.url, "S"), ErrRes("middleware")} :
           /\ trace' = trace \o << Log("enter", Top, NoRet, NoRet),
                                   Log("exit", Top, NoRet, r) >>
           /\ ret' = r
    /\ stack' = Pop(stack) \o ShortCircuitCalls(Top)
    /\ UNCHANGED <<bodies, conf, writers, zip, parked, cacache, store, call, env, attempts, clients, arcs, used, lateWith,
                   ownLog, panicked, outcome, cur, nsends>>

\* Method::is_safe, as Doubler::handle asks it
is_safe(method) == method \in {"GET", "HEAD", "OPTIONS", "TRACE"}

\* Doubler::handle up to the join: the first next.run(req, client.clone()).
\* The two futures of the join are run one after the other, the schedule in
\* which each HttpClient future is ready when first polled.
HandleDoubler ==
    /\ Running
    /\ Top.mw = "D"
    /\ Top.pc = "start"
    /\ trace' = Append(trace, Log("enter", Top, NoRet, NoRet))
    /\ stack' = Append(SetTop(stack, [Top EXCEPT
                           !.pc = IF is_safe(Top.req.method) THEN "first" ELSE "only",
                           !.runs = @ + 1,
                           !.next = NextAfterRun(@)]),
                       NextRun(Top.next, Top.req, Top.client))
    /\ UNCHANGED <<bodies, conf, writers, zip, parked, cacache, store, call, env, attempts, clients, arcs, used, lateWith,
                   ownLog, panicked, ret, outcome, cur, nsends>>

\* Doubler::handle, the second future of the join: next.run(new_req, client)
DoublerSecond ==
    /\ Running
    /\ Top.mw = "D"
    /\ Top.pc = "first"
    /\ ret # NoRet
    /\ LET new_req == [method |-> Top.req.method, url |-> Top.req.url,
                       middleware |-> <<>>, headers |-> Top.req.headers,
                       body |-> EmptyBody]
       IN  stack' = Append(SetTop(stack, [Top EXCEPT
                               !.pc = "second",
                               !.saved = ret,
                               !.runs = @ + 1,
                               !.next = NextAfterRun(@)]),
                           NextRun(Top.next, new_req, Top.client))
    /\ ret' = NoRet
    /\ UNCHANGED <<bodies, conf, writers, zip, parked, cacache, store, call, env, attempts, clients, arcs, used, lateWith,
                   ownLog, panicked, trace, outcome, cur, nsends>>

\* Doubler::handle after the join: res1?, res2?, the second response with
\* both bodies (marked "D"); for an unsafe method, the one next.run as it is
DoublerReturn ==
    /\ Running
    /\ Top.mw = "D"
    /\ Top.pc \in {"second", "only"}
    /\ ret # NoRet
    /\ LET res == IF Top.pc = "only" THEN ret
                  ELSE IF Top.saved.tag = "err" THEN Top.saved
                  ELSE IF ret.tag = "err" THEN ret
                  ELSE [ret EXCEPT !.ext = @ \cup {"D"}]
       IN  /\ trace' = Append(trace, Log("exit", Top, ret, res))
           /\ ret' = res
    /\ stack' = Pop(stack)
    /\ UNCHANGED <<bodies, conf, writers, zip, parked, cacache, store, call, env, attempts, clients, arcs, used, lateWith,
                   ownLog, panicked, outcome, cur, nsends>>

\* redirect/mod.rs, REDIRECT_CODES
REDIRECT_CODES == {301, 302, 303, 307, 308}

\* Url::parse of a Location value: an absolute URL, its scheme in lower case,
\* or an error (a relative reference has no base to be resolved against)
UrlParse(s) ==
    IF s = "http://h/a" THEN [ok |-> TRUE, url |-> "http://h/a"]
    ELSE IF s = "HTTP://h/b" THEN [ok |-> TRUE, url |-> "http://h/b"]
    ELSE [ok |-> FALSE, url |-> ""]

\* A loop that follows one redirect more than `attempts`
BudgetLeft_offByOne(redirect_count, max) == redirect_count <= max

\* A loop that goes on whatever its count
BudgetLeft_noBudget(redirect_count, max) == TRUE

\* Redirect::handle, `while redirect_count < self.attempts`
BudgetLeft(redirect_count, max) == redirect_count < max

\* A Redirect that fails once the budget is used up on a redirecting server
AfterLoop_maxRedirects(f) ==
    IF f.n >= attempts /\ f.last \in REDIRECT_CODES THEN "error" ELSE "run"

\* Redirect::handle after the loop, however it ended: next.run(req, client)
AfterLoop(f) == "run"

\* A Redirect that skips a Location it cannot parse
OnBadLocation_skip(f) == "continue"

\* Redirect::handle, `Url::parse(..)?`: the parse error is returned
OnBadLocation(f) == "error"

\* Redirect::handle, `let r: Request = req.clone()`: "we clone the request
\* first (without the body)"; method, URL and headers are copied
RequestClone(req) == [req EXCEPT !.body = EmptyBody]

\* A probe that is sent the request itself: its body goes with the probe
KeptRequest_moved(req) == [req EXCEPT !.body = EmptyBody]

\* Redirect::handle, `client.send(r)`: the probe takes the clone, `req` stays
\* as it is for the next turn of the loop and for next.run
KeptRequest(req) == req

\* Redirect::handle at the head of the loop and behind it: the probe
\* client.send(req.clone()), or next.run once the loop is over.  `brk` is
\* the `break` of the loop.
RedirectStep(s, f, brk) ==
    IF ~brk /\ BudgetLeft(f.n, attempts)
    THEN [stack |-> SetTop(s, [f EXCEPT !.n = @ + 1, !.pc = "probe",
                                         !.req = KeptRequest(@)])
                    \o SendFrames(f.client, RequestClone(f.req)),
          ret |-> NoRet, events |-> <<>>]
    ELSE IF AfterLoop(f) = "run"
    THEN [stack |-> Append(SetTop(s, [f EXCEPT !.pc = "final", !.runs = @ + 1]),
                           NextRun(f.next, f.req, f.client)),
          ret |-> NoRet, events |-> <<>>]
    ELSE [stack |-> Pop(s),
          ret |-> ErrRes("max redirects"),
          events |-> << Log("exit", f, NoRet, ErrRes("max redirects")) >>]

\* Redirect::handle entered: redirect_count = 0, then the loop
HandleRedirect ==
    /\ Running
    /\ Top.mw = "R"
    /\ Top.pc = "start"
    /\ LET step == RedirectStep(stack, Top, FALSE) IN
           /\ stack' = step.stack
           /\ ret' = step.ret
           /\ trace' = Append(trace, Log("enter", Top, NoRet, NoRet)) \o step.events
    /\ UNCHANGED <<bodies, conf, writers, zip, parked, cacache, store, call, env, attempts, clients, arcs, used, lateWith,
                   ownLog, panicked, outcome, cur, nsends>>

\* Redirect::handle with the probe's result: `?`, the status against
\* REDIRECT_CODES, the Location header parsed into the request's URL
RedirectProbed ==
    /\ Running
    /\ Top.mw = "R"
    /\ Top.pc = "probe"
    /\ ret # NoRet
    /\ LET f == [Top EXCEPT !.last = ret.status]
           u == UrlParse(ret.loc)
           moved == [f EXCEPT !.req.url = u.url, !.rw = @ + 1]
           fail(e) == [stack |-> Pop(stack), ret |-> e,
                       events |-> << Log("exit", f, ret, e) >>]
           step ==
               IF ret.tag = "err" THEN fail(ret)
               ELSE IF ret.status \in REDIRECT_CODES
               THEN IF ret.loc = NoLoc THEN RedirectStep(stack, f, FALSE)
                    ELSE IF u.ok
                    THEN [RedirectStep(stack, moved, FALSE) EXCEPT
                              !.events = << Log("rewrite", moved, ret, NoRet) >> \o @]
                    ELSE IF OnBadLocation(f) = "error" THEN fail(ErrRes("urlparse"))
                    ELSE RedirectStep(stack, f, FALSE)
               ELSE RedirectStep(stack, f, TRUE)
       IN  /\ stack' = step.stack
           /\ ret' = step.ret
           /\ trace' = trace \o step.events
    /\ UNCHANGED <<bodies, conf, writers, zip, parked, cacache, store, call, env, attempts, clients, arcs, used, lateWith,
                   ownLog, panicked, outcome, cur, nsends>>

\* Redirect::handle, `Ok(next.run(req, client).await?)`
RedirectReturn ==
    /\ Running
    /\ Top.mw = "R"
    /\ Top.pc = "final"
    /\ ret # NoRet
    /\ trace' = Append(trace, Log("exit", Top, ret, ret))
    /\ stack' = Pop(stack)
    /\ UNCHANGED <<bodies, conf, writers, zip, parked, cacache, store, call, env, attempts, clients, arcs, used, lateWith,
                   ownLog, panicked, ret, outcome, cur, nsends>>

\* A derived Clone: the clone holds the parent's Arc, not a new vector
ClonedArc_shared(src, fresh) == src

\* Clone for Client, `middleware: Arc::new(..)`: the clone's list is a new Arc
ClonedArc(src, fresh) == fresh

\* Clone for Client: the same HttpClient, a new vector holding the same
\* middleware
ClientClone ==
    /\ Idle
    /\ clients["c1"].live
    /\ ~clients["c2"].live
    /\ LET src == clients["c1"].middleware
           a == ClonedArc(src, "c2")
       IN  /\ clients' = [clients EXCEPT !["c2"] =
                  [live |-> TRUE,
                   http_client |-> clients["c1"].http_client,
                   middleware |-> a]]
           /\ arcs' = IF a = src
                      THEN [arcs EXCEPT ![src].strong = @ + 1]
                      ELSE [arcs EXCEPT ![a] = [vec |-> arcs[src].vec, strong |-> 1]]
    /\ ownLog' = [ownLog EXCEPT !["c2"] = ownLog["c1"]]
    /\ trace' = <<>>
    /\ outcome' = NoRet
    /\ cur' = NoCur
    /\ UNCHANGED <<bodies, conf, writers, zip, parked, cacache, store, call, env, attempts, used, lateWith, panicked, stack,
                   ret, nsends>>

Core ==
    \/ \E c \in ClientIds, m \in kinds : ClientWith(c, m)
    \/ \E c \in ClientIds, rm \in SeqsUpTo(kinds, lim.req), meth \in methods :
           SendStart(c, rm, meth)
    \/ SendReturn
    \/ Endpoint
    \/ HandlePass
    \/ ReturnPass

Next == Core \/ HandleShort

Spec == Init /\ [][Next]_vars

\* The clients of tests/test.rs `cloned`: mw_1 and mw_2, a client and its clone
InitClone ==
    InitWith({"A", "B"},
             {Reply(200, NoLoc), TransportFails},
             {"GET"},
             [mw |-> MaxMw, req |-> MaxReqMw, sends |-> MaxSends],
             Transports)

NextClone == Core \/ ClientClone

SpecClone == InitClone /\ [][NextClone]_vars

\* The application of examples/next_reuse.rs: Doubler among pass-through
\* middleware, safe and unsafe methods
InitDoubler ==
    InitWith({"A", "D"},
             {Reply(200, NoLoc), TransportFails},
             {"GET", "POST"},
             [mw |-> MaxDoublerMw, req |-> 0, sends |-> MaxSends],
             {"T1"})

NextDoubler == Core \/ HandleDoubler \/ DoublerSecond \/ DoublerReturn

SpecDoubler == InitDoubler /\ [][NextDoubler]_vars

\* A server that answers every request with 302 and a Location header
Always302 == {Reply(302, "http://h/a"), Reply(302, "HTTP://h/b")}

\* A server that may answer anything: a final response, a 300 that is no
\* redirect code, redirects with an absolute, absent, relative or malformed
\* Location, or no answer at all
AnyReply ==
    {Reply(200, NoLoc), Reply(300, "http://h/a"), Reply(302, "http://h/a"),
     Reply(302, NoLoc), Reply(307, "/rel"), Reply(302, "::"), TransportFails}

\* Clients with Redirect::new(attempts) on their stack
InitRedirect ==
    \E r \in {Always302, AnyReply} :
        InitWith({"R", "A", "F"}, r, {"GET"},
                 [mw |-> MaxRedirectMw, req |-> 0, sends |-> MaxRedirectSends],
                 {"T1"})

NextRedirect == Core \/ HandleRedirect \/ RedirectProbed \/ RedirectReturn

SpecRedirect == InitRedirect /\ [][NextRedirect]_vars

----------------------------------------------------------------------------
(* Client::send futures polled in turn: src/examples/persistent.rs *)

\* A future that is polled again finding the result slot as the future
\* polled before it left it
Polled_sharedRet(own, running) == [own EXCEPT !.ret = running.ret]

\* A Client::send future that is polled again: its locals are its own
Polled(own, running) == own

\* try_join of examples/persistent.rs: the future being polled is pending
\* at an await or has finished, the executor polls another of the
\* Client::send futures, one that has not finished; of those it has not
\* polled yet it takes the first
Yield(i) ==
    /\ ~panicked
    /\ i \in DOMAIN parked
    /\ ~(parked[i].stack = <<>> /\ parked[i].outcome # NoRet)
    /\ \A j \in 1..(i - 1) : parked[j] # NoContext
    /\ Context(stack, ret, trace, outcome, cur) # NoContext
    /\ LET running == Context(stack, ret, trace, outcome, cur)
           next == Polled(parked[i], running)
       IN  /\ parked' = [parked EXCEPT ![i] = running]
           /\ stack' = next.stack
           /\ ret' = next.ret
           /\ trace' = next.trace
           /\ outcome' = next.outcome
           /\ cur' = next.cur
    /\ UNCHANGED <<bodies, conf, writers, zip, cacache, store, call, env, attempts, clients,
                   arcs, used, lateWith, ownLog, panicked, nsends>>

\* The application of examples/persistent.rs: one Client, MaxConcurrent
\* futures of Client::send joined
InitConcurrent ==
    /\ InitPipeline({"A"},
                    {Reply(200, NoLoc), TransportFails},
                    {"GET"},
                    [mw |-> MaxConcurrentMw, req |-> MaxConcurrentMw,
                     sends |-> MaxConcurrent],
                    {"T1"})
    /\ cacache = NoCacache
    /\ store = NoStoreYet
    /\ call = NoCall
    /\ writers = NoWriters
    /\ zip = NoZip
    /\ parked = [i \in 1..(MaxConcurrent - 1) |-> NoContext]
    /\ bodies = NoBodies
    /\ conf = NoConf

NextConcurrent == Core \/ \E i \in DOMAIN parked : Yield(i)

SpecConcurrent == InitConcurrent /\ [][NextConcurrent]_vars

----------------------------------------------------------------------------
(* Cacache::send and Cacache::put: src/src/cache.rs *)

\* The requests the application hands to the cache middleware
CacheRequests ==
    [method : CacheMethods, uri : CacheUrls,
     headers : {{}, {"accept"}, {"if-none-match"}, {"accept", "If-Range"}}]

\* The requests the application stores responses for
PutRequests == {r \in CacheRequests : r.method # "POST" /\ r.headers = {}}

CacheIdle == call.pc \in {"idle", "done", "panicked"}

Return(c, r) == [c EXCEPT !.pc = "done", !.result = r]
Panicked(c, msg) == [c EXCEPT !.pc = "panicked", !.panic = msg]

\* Cacache::send up to c.matched(&req): the configured headers are inserted,
\* the mode is coerced, request_cacheable decides between lookup and network.
\* The store is the one at Cacache.path, which every Cacache holds.  `self`
\* is taken by value: the coerced mode is that of this call alone.
CacheSendStart(req) ==
    /\ CacheIdle
    /\ call.n < MaxCacheSends
    /\ LET headers == req.headers \cup cacache.headers
           cache_mode == CoerceMode(cacache.cache_mode, headers)
           self == [cache_mode |-> cache_mode]
           r == [req EXCEPT !.headers = headers]
       IN  /\ call' = [NoCall EXCEPT
                       !.n = call.n + 1,
                       !.puts = call.puts,
                       !.incoming = req.headers,
                       !.after = (call.pc # "idle" /\
                                  call.cache_mode # cacache.cache_mode),
                       !.req = r,
                       !.cache_mode = cache_mode,
                       !.pc = IF request_cacheable(self, r) THEN "matched"
                              ELSE "remote"]
           /\ cacache' = [cacache EXCEPT
                              !.cache_mode = ModeAfterSend(@, cache_mode)]
    /\ UNCHANGED <<bodies, conf, writers, zip, parked, store, env, attempts, clients, arcs, used,
                   lateWith, ownLog, panicked, stack, ret, trace, outcome,
                   cur, nsends>>

\* Cacache::send on a hit: the Warning header, then the branch of the mode
OnHit(c, entry) ==
    LET w == StripWarning(entry.warning)
        res == [entry EXCEPT !.warning = w.warning]
        self == [cache_mode |-> c.cache_mode]
        h == [c EXCEPT !.hit = entry, !.res = res]
        stale == is_stale(self, res)
        cond == send_conditional(self, c.req, res)
        warned == set_warning(self, res, 112, "Disconnected operation")
    IN  IF ~w.ok THEN Return(h, CacheErr("parse"))
        ELSE IF c.cache_mode = "Default" /\ stale.panic
        THEN Panicked(h, "not yet implemented")
        ELSE IF c.cache_mode = "Default" /\ ~stale.value
        THEN Return(h, CacheOk(res, "cache"))
        ELSE IF c.cache_mode = "Default" \/ c.cache_mode = "NoCache"
        THEN IF cond.panic THEN Panicked(h, "not yet implemented")
             ELSE Return(h, cond.value)
        ELSE IF c.cache_mode = "ForceCache" \/ c.cache_mode = "OnlyIfCached"
        THEN IF warned.panic THEN Panicked(h, "not yet implemented")
             ELSE Return(h, CacheOk(res, "cache"))
        ELSE [h EXCEPT !.pc = "remote"]

\* Cacache::send on a miss: OnlyIfCached panics, the other modes go on to
\* send_remote
OnMiss(c) ==
    IF c.cache_mode = "OnlyIfCached"
    THEN Panicked(c, "cache mode is OnlyIfCached, but no cached response found")
    ELSE [c EXCEPT !.pc = "remote"]

\* Cacache::send at `c.matched(&req).await?`: the store answers with an
\* error, an entry or nothing
CacheMatched ==
    /\ call.pc = "matched"
    /\ \E io \in {"ok", "err"} :
         LET c == [call EXCEPT !.lookups = @ + 1]
             entry == store[cache_key(call.req)]
         IN  call' = IF io = "err" THEN Return(c, CacheErr("store"))
                     ELSE IF entry # NoEntry THEN OnHit(c, entry)
                     ELSE OnMiss(c)
    /\ UNCHANGED <<bodies, conf, writers, zip, parked, cacache, store, env, attempts, clients, arcs, used,
                   lateWith, ownLog, panicked, stack, ret, trace, outcome,
                   cur, nsends>>

\* Cacache::send from send_remote on: the network answers, `?`, then
\* response_cacheable and, for a cacheable response, c.put(req, res)
CacheSendRemote ==
    /\ call.pc = "remote"
    /\ \E rp \in {NetOk, NetErr} :
         LET c == [call EXCEPT !.remote = Append(@, call.req), !.net = rp]
             self == [cache_mode |-> call.cache_mode]
             cacheable == response_cacheable(self, rp)
         IN  IF rp = NetErr
             THEN call' = Return(c, CacheErr("network")) /\ UNCHANGED store
             ELSE IF cacheable.panic
             THEN call' = Panicked(c, "not yet implemented") /\ UNCHANGED store
             ELSE IF cacheable.value
             THEN /\ store' = [store EXCEPT ![cache_key(call.req)] = Stored(rp)]
                  /\ call' = Return(c, CacheOk(rp, "put"))
             ELSE call' = Return(c, CacheOk(rp, "network")) /\ UNCHANGED store
    /\ UNCHANGED <<bodies, conf, writers, zip, parked, cacache, env, attempts, clients, arcs, used,
                   lateWith, ownLog, panicked, stack, ret, trace, outcome,
                   cur, nsends>>

\* Cacache::put called by the application: the status and the headers go
\* into the metadata under the key of the request
CachePut(req, res) ==
    /\ CacheIdle
    /\ call.puts < MaxCachePuts
    /\ store' = [store EXCEPT ![cache_key(req)] = Stored(res)]
    /\ call' = [NoCall EXCEPT !.n = call.n, !.puts = call.puts + 1]
    /\ UNCHANGED <<bodies, conf, writers, zip, parked, cacache, env, attempts, clients, arcs, used,
                   lateWith, ownLog, panicked, stack, ret, trace, outcome,
                   cur, nsends>>

\* An application holding one Cacache, in any mode, with or without
\* configured headers
InitCache ==
    /\ InitPipeline({}, {}, {}, [mw |-> 0, req |-> 0, sends |-> 0], {"T1"})
    /\ cacache \in [cache_mode : CacheMode, headers : {{}, {"If-Range"}}]
    /\ store = NoStoreYet
    /\ call = NoCall
    /\ writers = NoWriters
    /\ zip = NoZip
    /\ parked = NoParked
    /\ bodies = NoBodies
    /\ conf = NoConf

NextCache ==
    \/ \E req \in CacheRequests : CacheSendStart(req)
    \/ CacheMatched
    \/ CacheSendRemote
    \/ \E req \in PutRequests, res \in Entries : CachePut(req, res)

SpecCache == InitCache /\ [][NextCache]_vars

----------------------------------------------------------------------------
(* Cacache::put, step by step, for callers that run at once *)

\* The bodies of the responses put stores: MaxChunks reads of the buffer
Chunks(tag) == [i \in 1..MaxChunks |-> << tag, i >>]

\* The responses the callers store
PutResponses ==
    {[NoEntry EXCEPT !.status = 200, !.cache_control = "max-age=60",
                     !.etag = "v1", !.body = Chunks("a")],
     [NoEntry EXCEPT !.status = 203, !.cache_control = "max-age=0",
                     !.etag = "v2", !.warning = <<214>>,
                     !.set_cookie = << "a=1", "b=2" >>,
                     !.body = Chunks("b")]}

\* A commit that adds the written bytes to the content the key already has
Committed_append(old, handle) ==
    [handle.metadata EXCEPT !.body = old.body \o handle.data]

\* put.commit(): the key now names the metadata and the bytes of this writer
Committed(old, handle) == [handle.metadata EXCEPT !.body = handle.data]

InFlight(w) == writers[w].pc \in {"write", "matched"}

\* put up to open_async: the metadata is built, the writer is opened
PutOpen(w, req, res) ==
    /\ writers[w].pc = "idle"
    /\ writers' = [writers EXCEPT ![w] =
           [NoWriter EXCEPT !.pc = "write", !.req = req, !.res = res,
                            !.unread = res.body,
                            !.handle = [metadata |-> Metadata(res),
                                        data |-> <<>>],
                            !.overlap = \E v \in WriterIds \ {w} : InFlight(v)]]
    /\ UNCHANGED <<bodies, conf, zip, parked, cacache, store, call, env, attempts, clients,
                   arcs, used, lateWith, ownLog, panicked, stack, ret, trace,
                   outcome, cur, nsends>>

\* put, one turn of the loop: res.read, put.write_all
PutWrite(w) ==
    /\ writers[w].pc = "write"
    /\ writers[w].unread # <<>>
    /\ writers' = [writers EXCEPT
           ![w].handle.data = Append(@, Head(writers[w].unread)),
           ![w].unread = Tail(@)]
    /\ UNCHANGED <<bodies, conf, zip, parked, cacache, store, call, env, attempts, clients,
                   arcs, used, lateWith, ownLog, panicked, stack, ret, trace,
                   outcome, cur, nsends>>

\* put, the read that returns 0 and put.commit()
PutCommit(w) ==
    /\ writers[w].pc = "write"
    /\ writers[w].unread = <<>>
    /\ LET key == cache_key(writers[w].req) IN
       store' = [store EXCEPT ![key] = Committed(@, writers[w].handle)]
    /\ writers' = [writers EXCEPT
           ![w].pc = "matched",
           ![w].order = 1 + Cardinality({v \in WriterIds : writers[v].order > 0})]
    /\ UNCHANGED <<bodies, conf, zip, parked, cacache, call, env, attempts, clients, arcs,
                   used, lateWith, ownLog, panicked, stack, ret, trace,
                   outcome, cur, nsends>>

\* put, self.matched(&req).await?.unwrap(): what the key names by now
PutMatched(w) ==
    /\ writers[w].pc = "matched"
    /\ writers' = [writers EXCEPT
           ![w].pc = "done",
           ![w].result = CacheOk(store[cache_key(writers[w].req)], "cache")]
    /\ UNCHANGED <<bodies, conf, zip, parked, cacache, store, call, env, attempts, clients,
                   arcs, used, lateWith, ownLog, panicked, stack, ret, trace,
                   outcome, cur, nsends>>

\* put, a `?` on res.read, write_all or commit: the writer is dropped
PutFail(w) ==
    /\ writers[w].pc = "write"
    /\ writers' = [writers EXCEPT ![w].pc = "done",
                                  ![w].result = CacheErr("io")]
    /\ UNCHANGED <<bodies, conf, zip, parked, cacache, store, call, env, attempts, clients,
                   arcs, used, lateWith, ownLog, panicked, stack, ret, trace,
                   outcome, cur, nsends>>

\* Two callers of put over one store
InitPut ==
    /\ InitPipeline({}, {}, {}, [mw |-> 0, req |-> 0, sends |-> 0], {"T1"})
    /\ cacache = [cache_mode |-> "Default", headers |-> {}]
    /\ store = NoStoreYet
    /\ call = NoCall
    /\ writers = NoWriters
    /\ zip = NoZip
    /\ parked = NoParked
    /\ bodies = NoBodies
    /\ conf = NoConf

NextPut ==
    \/ \E w \in WriterIds, req \in PutRequests, res \in PutResponses :
           PutOpen(w, req, res)
    \/ \E w \in WriterIds : PutWrite(w)
    \/ \E w \in WriterIds : PutCommit(w)
    \/ \E w \in WriterIds : PutMatched(w)
    \/ \E w \in WriterIds : PutFail(w)

SpecPut == InitPut /\ [][NextPut]_vars

----------------------------------------------------------------------------
(* Response::body_bytes, Request::take_body, set_body and poll *)

\* Response::body_bytes: read_to_end over what is left of the stream, `?`.
\* A read of the stream may fail while there is something left to read;
\* what was read before the failure is gone with the buffer.
BodyBytes ==
    /\ Len(bodies.log) < MaxReads
    /\ \/ bodies' = [bodies EXCEPT
              !.res = [unread |-> <<>>, consumed |-> TRUE],
              !.log = Append(@, Read("body_bytes", "ok", bodies.res.unread,
                                     bodies.res.consumed))]
       \/ \E k \in 1..Len(bodies.res.unread) :
              bodies' = [bodies EXCEPT
                  !.res.unread = SubSeq(@, k, Len(@)),
                  !.log = Append(@, Read("body_bytes", "err", <<>>,
                                         bodies.res.consumed))]
    /\ UNCHANGED <<conf, writers, zip, parked, cacache, store, call, env,
                   attempts, clients, arcs, used, lateWith, ownLog, panicked,
                   stack, ret, trace, outcome, cur, nsends>>

\* Request::take_body: self.req.as_mut().unwrap().take_body()
TakeBody ==
    /\ Len(bodies.log) < MaxReads
    /\ bodies' =
           IF bodies.req.some
           THEN [bodies EXCEPT
                    !.req.body = <<>>,
                    !.req.consumed = TRUE,
                    !.log = Append(@, Read("take_body", "ok", bodies.req.body,
                                           bodies.req.consumed))]
           ELSE [bodies EXCEPT
                    !.log = Append(@, Read("take_body", "panic", <<>>,
                                           bodies.req.consumed))]
    /\ UNCHANGED <<conf, writers, zip, parked, cacache, store, call, env,
                   attempts, clients, arcs, used, lateWith, ownLog, panicked,
                   stack, ret, trace, outcome, cur, nsends>>

\* Request::set_body on a request that has not been polled: a body nobody
\* has read
SetBody(b) ==
    /\ bodies.req.some
    /\ bodies.log = <<>>
    /\ bodies' = [bodies EXCEPT !.req.body = b, !.req.consumed = FALSE]
    /\ UNCHANGED <<conf, writers, zip, parked, cacache, store, call, env,
                   attempts, clients, arcs, used, lateWith, ownLog, panicked,
                   stack, ret, trace, outcome, cur, nsends>>

\* impl Future for Request, the first poll: client, middleware and req are
\* taken out of the Request and moved into the future
RequestPoll ==
    /\ ~bodies.req.fut
    /\ bodies.req.some
    /\ bodies' = [bodies EXCEPT !.req.some = FALSE, !.req.fut = TRUE,
                                !.req.body = <<>>]
    /\ UNCHANGED <<conf, writers, zip, parked, cacache, store, call, env,
                   attempts, clients, arcs, used, lateWith, ownLog, panicked,
                   stack, ret, trace, outcome, cur, nsends>>

\* An application holding a Response with any body and a Request
InitBodies ==
    /\ InitPipeline({}, {}, {}, [mw |-> 0, req |-> 0, sends |-> 0], {"T1"})
    /\ cacache = NoCacache
    /\ store = NoStoreYet
    /\ call = NoCall
    /\ writers = NoWriters
    /\ zip = NoZip
    /\ parked = NoParked
    /\ \E b \in BodyChunks : bodies = [NoBodies EXCEPT !.res.unread = b]
    /\ conf = NoConf

NextBodies ==
    \/ BodyBytes
    \/ TakeBody
    \/ \E b \in BodyChunks : SetBody(b)
    \/ RequestPoll

SpecBodies == InitBodies /\ [][NextBodies]_vars

----------------------------------------------------------------------------
(* Config::add_header, Client::get, RequestBuilder, Client::send *)

\* Request::insert_header: the value replaces what the name had
insert_header(headers, name, value) == [headers EXCEPT ![name] = << value >>]

\* Request::append_header: the values are added to what the name has
append_header(headers, name, values) == [headers EXCEPT ![name] = @ \o values]

\* RequestBuilder::with_client: every header of the Client's Config is
\* appended to the new request
RECURSIVE WithClientHeaders(_, _, _)
WithClientHeaders(req, config, names) ==
    IF names = {} THEN req
    ELSE LET h == CHOOSE x \in names : TRUE IN
         WithClientHeaders(append_header(req, h, config[h]), config,
                           names \ {h})

\* Config::add_header
ConfigAddHeader(name, value) ==
    /\ conf.pc = "config"
    /\ conf' = [conf EXCEPT !.headers = insert_header(@, name, value)]
    /\ UNCHANGED <<bodies, writers, zip, parked, cacache, store, call, env,
                   attempts, clients, arcs, used, lateWith, ownLog, panicked,
                   stack, ret, trace, outcome, cur, nsends>>

\* Config::try_into: the Client keeps the Config it is made of
ConfigTryInto ==
    /\ conf.pc = "config"
    /\ conf' = [conf EXCEPT !.pc = "client"]
    /\ UNCHANGED <<bodies, writers, zip, parked, cacache, store, call, env,
                   attempts, clients, arcs, used, lateWith, ownLog, panicked,
                   stack, ret, trace, outcome, cur, nsends>>

\* Client::get and the like: RequestBuilder::new(..).with_client(self.clone())
ClientGet ==
    /\ conf.pc \in {"client", "sent"}
    /\ conf.n < MaxRequests
    /\ conf' = [conf EXCEPT
           !.pc = "built", !.via = "Client::get", !.sent = NoHeaders,
           !.req = WithClientHeaders(NoHeaders, conf.headers,
                                     ConfigHeaderNames)]
    /\ UNCHANGED <<bodies, writers, zip, parked, cacache, store, call, env,
                   attempts, clients, arcs, used, lateWith, ownLog, panicked,
                   stack, ret, trace, outcome, cur, nsends>>

\* RequestBuilder::new(..) of surf::get and the like, without a Client
RequestBuilderNew ==
    /\ conf.pc \in {"client", "sent"}
    /\ conf.n < MaxRequests
    /\ conf' = [conf EXCEPT !.pc = "built", !.via = "RequestBuilder::new",
                            !.sent = NoHeaders, !.req = NoHeaders]
    /\ UNCHANGED <<bodies, writers, zip, parked, cacache, store, call, env,
                   attempts, clients, arcs, used, lateWith, ownLog, panicked,
                   stack, ret, trace, outcome, cur, nsends>>

\* RequestBuilder::header
BuilderHeader(name, value) ==
    /\ conf.pc = "built"
    /\ conf' = [conf EXCEPT !.req = insert_header(@, name, value)]
    /\ UNCHANGED <<bodies, writers, zip, parked, cacache, store, call, env,
                   attempts, clients, arcs, used, lateWith, ownLog, panicked,
                   stack, ret, trace, outcome, cur, nsends>>

\* Client::send of the built request, on a Client without middleware: the
\* request goes to the HttpClient as it was handed in
ClientSend ==
    /\ conf.pc = "built"
    /\ conf' = [conf EXCEPT !.pc = "sent", !.sent = conf.req, !.n = @ + 1]
    /\ UNCHANGED <<bodies, writers, zip, parked, cacache, store, call, env,
                   attempts, clients, arcs, used, lateWith, ownLog, panicked,
                   stack, ret, trace, outcome, cur, nsends>>

\* The application of tests/test.rs `config_client_headers`, and one that
\* hands the Client requests it built by itself
InitConfig ==
    /\ InitPipeline({}, {}, {}, [mw |-> 0, req |-> 0, sends |-> 0], {"T1"})
    /\ cacache = NoCacache
    /\ store = NoStoreYet
    /\ call = NoCall
    /\ writers = NoWriters
    /\ zip = NoZip
    /\ parked = NoParked
    /\ bodies = NoBodies
    /\ conf = NoConf

NextConfig ==
    \/ \E h \in ConfigHeaderNames, v \in ConfigHeaderValues : ConfigAddHeader(h, v)
    \/ ConfigTryInto
    \/ ClientGet
    \/ RequestBuilderNew
    \/ \E h \in ConfigHeaderNames, v \in ConfigHeaderValues : BuilderHeader(h, v)
    \/ ClientSend

SpecConfig == InitConfig /\ [][NextConfig]_vars

----------------------------------------------------------------------------
(* Observations on the trace *)

Done == stack = <<>> /\ outcome # NoRet

Reverse(q) == [i \in 1..Len(q) |-> q[Len(q) + 1 - i]]

IsEnter(e) == e.ev = "enter"
IsExit(e) == e.ev = "exit"
IsTransport(e) == e.ev = "transport"

Enters == SelectSeq(trace, IsEnter)
Exits == SelectSeq(trace, IsExit)
TransportCalls == SelectSeq(trace, IsTransport)
Names(q) == [i \in 1..Len(q) |-> q[i].mw]

\* The stack of the send in flight or just finished, as the claims state it
CurStack == cur.clientMw \o cur.reqMw
Range(q) == {q[i] : i \in DOMAIN q}
AllPassThrough == Range(CurStack) \subseteq PassThrough

\* The first position of the stack that holds a short-circuiting middleware
FirstShort == CHOOSE i \in DOMAIN CurStack :
                  CurStack[i] = "S" /\ \A j \in 1..(i - 1) : CurStack[j] # "S"

----------------------------------------------------------------------------
(* Compression::handle and Compression::decode *)

\* HeaderMap::append in the place of insert: the caller's values stay
InsertHeader_append(values, v) == Append(values, v)

\* HeaderMap::insert: the one value replaces every value of the name
InsertHeader(values, v) == << v >>

\* Decoders applied in the order the header lists the encodings
DecodeOrder_listed(pieces) == pieces

\* decode, `.rev()`: the last encoding listed is decoded first
DecodeOrder(pieces) == Reverse(pieces)

\* decode without a Content-Encoding header falling through to the strip,
\* whose unwrap() then meets None
NoDecoding_strip(res) == ZPanic("unwrap on None")

\* decode, `return Ok(())` when the header is absent: the response stays
NoDecoding(res) == ZOk(res)

\* A decode that leaves the header on the decoded response
StripHeader_keep(res) == res

\* decode, `req.headers_mut().remove(CONTENT_ENCODING)`
StripHeader(res) == [res EXCEPT !.content_encoding = NoHeader]

\* decode, the `for encoding in encodings` loop over the body
RECURSIVE Decoders(_, _)
Decoders(encodings, body) ==
    IF encodings = <<>> THEN body
    ELSE Decoders(Tail(encodings),
                  IF Head(encodings) = "Identity" THEN body
                  ELSE Decoder(Head(encodings), body))

\* StubClient::send, the loop that compresses the body
RECURSIVE Compressed(_, _)
Compressed(encodings, body) ==
    IF encodings = <<>> THEN body
    ELSE Compressed(Tail(encodings), Compress(Head(encodings), body))

\* Compression::decode of either file: [tag, res, err] and the decoders it
\* ran.  compression/compression.rs returns the errors of to_str and of
\* parse_encoding and leaves a failing stream to the reader of the body;
\* compression.rs returns on a to_str error, unwraps the parse result and
\* unwraps every chunk of the decoded stream.
decode(impl, res) ==
    LET hval == res.content_encoding
        order == DecodeOrder(hval)
        parsed == [i \in DOMAIN order |-> parse_encoding(trim(order[i]))]
        encodings == [i \in DOMAIN order |-> parsed[i].enc]
        body == Decoders(encodings, res.body)
        ran(r, a, d) == [ret |-> r, applied |-> a, decoded |-> d]
    IN  IF hval = NoHeader THEN ran(NoDecoding(res), <<>>, FALSE)
        ELSE IF hval = Opaque
        THEN IF impl = "compression/compression.rs"
             THEN ran(ZErr("ToStrError"), <<>>, FALSE)
             ELSE ran(ZOk(res), <<>>, FALSE)
        ELSE IF \E i \in DOMAIN parsed : ~parsed[i].ok
        THEN IF impl = "compression/compression.rs"
             THEN ran(ZErr("UnsupportedContentEncoding"), <<>>, FALSE)
             ELSE ran(ZPanic("unwrap on Err"), <<>>, FALSE)
        ELSE IF impl = "compression.rs" /\ ~body.ok
        THEN ran(ZPanic("unwrap on Err"), encodings, FALSE)
        ELSE ran(ZOk(StripHeader([res EXCEPT !.body = body])), encodings, TRUE)

\* What StubClient(encodings) of tests/utils.rs answers
Stub(encodings) ==
    ZResponse(200,
              IF encodings = <<>> THEN << "" >>
              ELSE [i \in DOMAIN encodings |-> to_header_value(encodings[i])],
              Compressed(encodings, Plain("lorem")))

StubResponses == {Stub(e) : e \in SeqsUpTo(Encoding, MaxEncodings)}

\* What other servers answer: no encoding at all, blanks behind the commas,
\* encodings listed in the order applied and in the opposite order, tokens
\* Compression does not know, a value that is no text
OtherResponses ==
    {ZResponse(200, NoHeader, Plain("lorem")),
     ZResponse(404, NoHeader, Plain("")),
     ZResponse(200, << "br", " gzip" >>, Compressed(<<"Brotli", "Gzip">>, Plain("lorem"))),
     ZResponse(200, << "br", " gzip" >>, Compressed(<<"Gzip", "Brotli">>, Plain("lorem"))),
     ZResponse(200, << " gzip " >>, Compressed(<<"Gzip">>, Plain("lorem"))),
     ZResponse(200, << "x-foo" >>, Plain("lorem")),
     ZResponse(200, << "gzip", "x-foo" >>, Compressed(<<"Gzip">>, Plain("lorem"))),
     ZResponse(200, << "GZIP" >>, Compressed(<<"Gzip">>, Plain("lorem"))),
     ZResponse(200, << "gzip", " " >>, Compressed(<<"Gzip">>, Plain("lorem"))),
     ZResponse(200, Opaque, Plain("lorem"))}

\* The Accept-Encoding values a caller may have set on the request
CallerAcceptEncoding == {<<>>, << "identity" >>, << "gzip", "br" >>}

\* Compression::handle up to the await: Accept-Encoding is set, next.run
CompressionHandle(impl, req) ==
    /\ zip.pc \in {"idle", "done"}
    /\ zip' = [NoZip EXCEPT !.pc = "await",
                            !.impl = impl,
                            !.req = req,
                            !.sent = InsertHeader(req, SUPPORTED_ENCODINGS)]
    /\ UNCHANGED <<bodies, conf, writers, parked, cacache, store, call, env, attempts,
                   clients, arcs, used, lateWith, ownLog, panicked, stack,
                   ret, trace, outcome, cur, nsends>>

\* Compression::handle behind the await: `?`, decode, `?`, Ok(res)
CompressionReturn(r) ==
    /\ zip.pc = "await"
    /\ LET d == decode(zip.impl, r.res) IN
       zip' = IF r.tag = "err"
              THEN [zip EXCEPT !.pc = "done", !.got = r, !.result = r]
              ELSE [zip EXCEPT !.pc = "done", !.got = r, !.result = d.ret,
                               !.applied = d.applied, !.decoded = d.decoded,
                               !.passes = 1]
    /\ UNCHANGED <<bodies, conf, writers, parked, cacache, store, call, env, attempts,
                   clients, arcs, used, lateWith, ownLog, panicked, stack,
                   ret, trace, outcome, cur, nsends>>

\* A second Compression further out in the stack receiving what the first
\* returned: decode once more
CompressionOuter ==
    /\ zip.pc = "done"
    /\ zip.result.tag = "ok"
    /\ zip.passes = 1
    /\ LET d == decode(zip.impl, zip.result.res) IN
       zip' = [zip EXCEPT !.before = zip.result, !.result = d.ret,
                          !.passes = 2]
    /\ UNCHANGED <<bodies, conf, writers, parked, cacache, store, call, env, attempts,
                   clients, arcs, used, lateWith, ownLog, panicked, stack,
                   ret, trace, outcome, cur, nsends>>

\* An application with a Compression middleware in front of any server
InitCompression ==
    /\ InitPipeline({}, {}, {}, [mw |-> 0, req |-> 0, sends |-> 0], {"T1"})
    /\ cacache = NoCacache
    /\ store = NoStoreYet
    /\ call = NoCall
    /\ writers = NoWriters
    /\ zip = NoZip
    /\ parked = NoParked
    /\ bodies = NoBodies
    /\ conf = NoConf

NextCompression ==
    \/ \E impl \in Compressions, req \in CallerAcceptEncoding :
           CompressionHandle(impl, req)
    \/ \E r \in {ZOk(res) : res \in StubResponses \cup OtherResponses}
                \cup {ZErr("transport")} :
           CompressionReturn(r)
    \/ CompressionOuter

SpecCompression == InitCompression /\ [][NextCompression]_vars

----------------------------------------------------------------------------
(* Claims *)

\* C1: the combined stack of one send is the client's middleware followed by
\* the request's: for a client list [A, B] and a request list [C] (and for
\* every other pair of lists of middleware that call next.run once) the
\* handlers are entered in the order A, B, C and left in the order C, B, A.
C1_ChainOrder ==
    (Done /\ AllPassThrough) =>
        /\ Names(Enters) = CurStack
        /\ Names(Exits) = Reverse(CurStack)
        /\ ((cur.clientMw = <<"A", "B">> /\ cur.reqMw = <<"C">>) =>
               /\ Names(Enters) = <<"A", "B", "C">>
               /\ Names(Exits) = <<"C", "B", "A">>)

C1_Witness ==
    /\ Done
    /\ cur.clientMw = <<"A", "B">>
    /\ cur.reqMw = <<"C">>
    /\ outcome.tag = "ok"
    /\ outcome.ext = {"A", "B", "C"}

\* C2: with n middleware that each call next.run once, handle is invoked on
\* every middleware exactly once, in list order, each with a Next over the
\* rest of the list, and the HttpClient is called exactly once, after the
\* last of them; with an empty stack the endpoint is the first thing run.
C2_EachOnceThenEndpoint ==
    (Done /\ AllPassThrough) =>
        LET n == Len(CurStack) IN
        /\ Len(Enters) = n
        /\ \A i \in 1..n :
               /\ trace[i].ev = "enter"
               /\ trace[i].mw = CurStack[i]
               /\ trace[i].next = SubSeq(CurStack, i + 1, n)
        /\ Len(TransportCalls) = 1
        /\ trace[n + 1].ev = "transport"

C2_Witness ==
    /\ Done
    /\ AllPassThrough
    /\ Len(CurStack) = 3
    /\ trace[4].ev = "transport"

C2_WitnessEmpty ==
    /\ Done
    /\ CurStack = <<>>
    /\ trace[1].ev = "transport"

\* C3: Client::with fails whenever the Client has already sent a request; it
\* never appends middleware after a send.
C3_WithFailsAfterSend == \A c \in ClientIds : ~lateWith[c]

\* C6: when the middleware at position i returns without calling next.run,
\* nothing after position i is invoked, the HttpClient is not called, the
\* middleware before i each receive what the one after them returned, and the
\* caller gets that result (an error as it is, a response with the markers the
\* outer middleware add to it).
C6_ShortCircuit ==
    (Done /\ "S" \in Range(CurStack)) =>
        LET i == FirstShort
            r == Exits[1].res
        IN  /\ Names(Enters) = SubSeq(CurStack, 1, i)
            /\ Len(TransportCalls) = 0
            /\ Names(Exits) = Reverse(SubSeq(CurStack, 1, i))
            /\ Exits[1].mw = "S"
            /\ \A k \in 2..Len(Exits) : Exits[k].got = Exits[k - 1].res
            /\ outcome = Exits[Len(Exits)].res
            /\ outcome = [r EXCEPT !.ext =
                   IF r.tag = "ok"
                   THEN {CurStack[j] : j \in 1..(i - 1)} \cap Markers
                   ELSE {}]
            /\ (r.tag = "err" => \A k \in 2..Len(Exits) : Exits[k].got = r)

C6_Witness ==
    /\ Done
    /\ Len(CurStack) = 3
    /\ CurStack[2] = "S"
    /\ CurStack[1] # "S"
    /\ outcome.tag = "err"

\* C7: when the HttpClient fails, Client::send returns that error, every
\* middleware of the stack hands it on unchanged, and the HttpClient was called
\* exactly once.
C7_TransportError ==
    (Done /\ \E k \in DOMAIN trace :
                 trace[k].ev = "transport" /\ trace[k].res.tag = "err") =>
        /\ Len(TransportCalls) = 1
        /\ outcome = TransportCalls[1].res
        /\ outcome = ErrRes("transport")
        /\ \A k \in DOMAIN Exits :
               Exits[k].got = outcome /\ Exits[k].res = outcome

C7_Witness ==
    /\ Done
    /\ Len(CurStack) >= 2
    /\ "L" \in Range(CurStack)
    /\ Len(Exits) = Len(CurStack)
    /\ outcome = ErrRes("transport")

\* C4: a clone starts with a copy of the parent's list and shares its
\* HttpClient; with() on either leaves the other's list as it was, so a send
\* runs the middleware its own Client was given (by with(), or by the clone
\* that made it) and no other, through the shared HttpClient.
C4_CloneIndependent ==
    /\ ~panicked
    /\ \A c \in ClientIds : clients[c].live => Vec(c) = ownLog[c]
    /\ clients["c2"].live => clients["c2"].http_client = clients["c1"].http_client
    /\ Done =>
           /\ Names(Enters) = ownLog[cur.client] \o cur.reqMw
           /\ \A k \in DOMAIN TransportCalls :
                  TransportCalls[k].res.tag = "ok" =>
                      TransportCalls[k].res.via = clients["c1"].http_client

C4_Witness ==
    /\ clients["c2"].live
    /\ Vec("c1") = <<"A">>
    /\ Vec("c2") = <<"A", "B">>
    /\ Done
    /\ cur.client = "c1"
    /\ cur.reqMw = <<>>
    /\ Names(Enters) = <<"A">>
    /\ outcome.ext = {"A"}

\* How often the handler at position i of the stack (the endpoint at
\* Len + 1) is started when every Doubler above it runs its Next twice
Starts(i) ==
    IF is_safe(cur.method)
    THEN 2 ^ Cardinality({j \in 1..(i - 1) : CurStack[j] = "D"})
    ELSE 1

EntersAt(i) ==
    {k \in DOMAIN trace :
        /\ trace[k].ev = "enter"
        /\ trace[k].mw = CurStack[i]
        /\ trace[k].next = SubSeq(CurStack, i + 1, Len(CurStack))}

\* C5 as claimed: within one handle call the Next is run at most once.
C5_NextAtMostOnce == \A i \in DOMAIN stack : stack[i].runs <= 1

\* C5 amended: a Next is Copy and a handle call may run it more than once
\* (Doubler runs it twice for a safe method); every run of a Next starts the
\* rest of the chain once, so the handler at each position, and the
\* HttpClient, is started once per run of the Next above it, never by itself.
C5_EachRunOnce ==
    /\ \A i \in DOMAIN stack :
           stack[i].runs <= (IF stack[i].mw = "D" THEN 2 ELSE 1)
    /\ (Done /\ Range(CurStack) \subseteq PassThrough \cup {"D"}) =>
           /\ \A i \in DOMAIN CurStack : Cardinality(EntersAt(i)) = Starts(i)
           /\ Len(Enters) = Len(Exits)
           /\ Len(TransportCalls) = Starts(Len(CurStack) + 1)

C5_Witness ==
    /\ Done
    /\ CurStack = <<"D", "A">>
    /\ cur.method = "GET"
    /\ Len(TransportCalls) = 2
    /\ Cardinality(EntersAt(2)) = 2
    /\ outcome.tag = "ok"

\* A probe of Redirect: a HttpClient call made inside the Client::send that a
\* middleware called on its Client handle
IsProbe(e) == e.ev = "transport" /\ e.depth = 2

\* A probe answered with a redirect code and a Location that does not parse
BadLocation(e) ==
    /\ IsProbe(e)
    /\ e.res.tag = "ok"
    /\ e.res.status \in REDIRECT_CODES
    /\ e.res.loc # NoLoc
    /\ ~UrlParse(e.res.loc).ok

\* C8: with budget N and a server that answers every request with 302 and a
\* Location, Redirect sends N probes and rewrites the URL N times, each time
\* to the Location just received, then runs the rest of the chain once and
\* returns its still-redirecting response as it is.
C8_RedirectBound ==
    replies = Always302 =>
        /\ \A k \in DOMAIN Exits :
               Exits[k].mw = "R" =>
                   /\ Exits[k].n = attempts
                   /\ Exits[k].rw = attempts
                   /\ Exits[k].runs = 1
                   /\ Exits[k].res = Exits[k].got
                   /\ Exits[k].got.tag = "ok"
                   /\ Exits[k].got.status = 302
        /\ (Done /\ CurStack = <<"R">>) =>
               LET last == 2 * attempts + 2 IN
               /\ Len(trace) = last + 1
               /\ \A j \in 1..attempts :
                      /\ IsProbe(trace[2 * j])
                      /\ trace[2 * j].url =
                             (IF j = 1 THEN Url0 ELSE trace[2 * j - 1].url)
                      /\ trace[2 * j + 1].ev = "rewrite"
                      /\ trace[2 * j + 1].url = UrlParse(trace[2 * j].res.loc).url
               /\ trace[last].ev = "transport"
               /\ trace[last].depth = 1
               /\ trace[last].url = trace[last - 1].url
               /\ outcome = trace[last].res
               /\ outcome.status = 302

C8_Witness ==
    /\ Done
    /\ replies = Always302
    /\ CurStack = <<"R">>
    /\ attempts = 2
    /\ Len(TransportCalls) = 3
    /\ trace[5].ev = "rewrite"
    /\ trace[5].url = "http://h/b"
    /\ outcome.status = 302
    /\ outcome.url = "http://h/b"

\* C9: using up the attempt budget on a server that still redirects is no
\* error: unless the HttpClient failed or a probe's Location did not parse,
\* every Redirect runs the rest of the chain once and returns its response as
\* it is, and the send succeeds.
C9_BudgetNoError ==
    (Done /\ \A k \in DOMAIN trace :
                 /\ trace[k].ev = "transport" => trace[k].res.tag = "ok"
                 /\ ~BadLocation(trace[k])) =>
        /\ outcome.tag = "ok"
        /\ Len(Exits) = Len(Enters)
        /\ \A k \in DOMAIN Exits :
               /\ Exits[k].res.tag = "ok"
               /\ Exits[k].mw = "R" =>
                      Exits[k].runs = 1 /\ Exits[k].res = Exits[k].got

C9_Witness ==
    /\ Done
    /\ attempts = 2
    /\ outcome.tag = "ok"
    /\ outcome.status \in REDIRECT_CODES
    /\ \E k \in DOMAIN Exits :
           /\ Exits[k].mw = "R"
           /\ Exits[k].n = attempts
           /\ Exits[k].last \in REDIRECT_CODES
           /\ Exits[k].res.status \in REDIRECT_CODES

\* C10: when a probe is answered with a redirect code and a Location that
\* does not parse as a URL, Redirect returns the parse error at once: nothing
\* is sent after that probe, next.run is not called, nothing panics, and the
\* error travels up to the caller.
C10_BadLocationIsError ==
    /\ ~panicked
    /\ \A i \in DOMAIN trace :
           BadLocation(trace[i]) =>
               /\ \A j \in (i + 1)..Len(trace) :
                      /\ trace[j].ev = "exit"
                      /\ trace[j].res = ErrRes("urlparse")
               /\ i < Len(trace) =>
                      /\ trace[i + 1].mw = "R"
                      /\ trace[i + 1].runs = 0
                      /\ trace[i + 1].got = trace[i].res
               /\ Done => outcome = ErrRes("urlparse")

C10_Witness ==
    /\ Done
    /\ CurStack = <<"A", "R">>
    /\ attempts = 2
    /\ Len(TransportCalls) = 2
    /\ BadLocation(TransportCalls[2])
    /\ TransportCalls[2].res.loc = "::"
    /\ outcome = ErrRes("urlparse")
    /\ Names(Exits) = <<"R", "A">>

\* Location values that are relative references
RelativeLocs == {"/rel"}

\* What resolving a relative reference against a request URL gives
Resolved(base, ref) ==
    IF base \in {Url0, "http://h/a", "http://h/b"} /\ ref = "/rel"
    THEN "http://h/rel"
    ELSE ""

\* A probe answered with a redirect code and a relative Location
RelativeLocation(e) ==
    /\ IsProbe(e)
    /\ e.res.tag = "ok"
    /\ e.res.status \in REDIRECT_CODES
    /\ e.res.loc \in RelativeLocs

\* C11: when a probe is answered with a redirect code and a relative
\* Location, Redirect resolves it against the URL of the request and goes on
\* with the request's URL replaced by the result, as it does for an absolute
\* Location.
C11_RelativeResolved ==
    \A i \in DOMAIN trace :
        (RelativeLocation(trace[i]) /\ i < Len(trace)) =>
            /\ trace[i + 1].ev = "rewrite"
            /\ trace[i + 1].url = Resolved(trace[i].url, trace[i].res.loc)

----------------------------------------------------------------------------
(* Observations on a Cacache::send *)

\* The send has returned or panicked
CacheDone == call.pc \in {"done", "panicked"}

\* The lookup found an entry whose Warning value starts with a warn-code
Hit == call.hit # NoEntry /\ (call.hit.warning = <<>> \/ call.hit.warning[1] # 0)

\* What a freshness function says of an entry when the request arrives
Fresh(entry) == entry.cache_control = "max-age=60"

WarnCodes(res) == {res.warning[i] : i \in DOMAIN res.warning}

\* C13: in Default mode, a GET without conditional headers whose key holds a
\* fresh entry (stored for an earlier GET to the same URL) is answered with
\* that entry from the cache, and nothing is sent to the network for it.
C13_FreshHitFromCache ==
    (/\ CacheDone
     /\ cacache.cache_mode = "Default"
     /\ call.cache_mode = "Default"
     /\ call.req.method = "GET"
     /\ Hit
     /\ Fresh(call.hit)) =>
        /\ call.pc = "done"
        /\ call.result.tag = "ok"
        /\ call.result.via = "cache"
        /\ call.remote = <<>>

\* C14: in Reload mode no send looks the store up or is answered from it, and
\* every GET that has finished was sent to the network once, as it was, also
\* when the store holds an entry for its key.
C14_ReloadAlwaysNetwork ==
    cacache.cache_mode = "Reload" =>
        /\ call.pc # "matched"
        /\ call.lookups = 0
        /\ call.hit = NoEntry
        /\ call.result.via # "cache"
        /\ (CacheDone /\ call.req.method = "GET") => call.remote = << call.req >>

C14_Witness ==
    /\ cacache.cache_mode = "Reload"
    /\ CacheDone
    /\ call.n = 2
    /\ call.req.method = "GET"
    /\ store[cache_key(call.req)] # NoEntry
    /\ store[cache_key(call.req)].status = 200
    /\ Len(call.remote) = 1

\* C15: a GET in OnlyIfCached mode whose key has no entry returns an error
\* to the caller: the send does not panic and sends nothing to the network.
C15_OnlyIfCachedMissIsError ==
    (/\ CacheDone
     /\ call.cache_mode = "OnlyIfCached"
     /\ call.req.method = "GET"
     /\ call.lookups = 1
     /\ store[cache_key(call.req)] = NoEntry) =>
        /\ call.pc = "done"
        /\ call.result.tag = "err"
        /\ call.remote = <<>>

\* C16 as claimed: a request that carries a conditional header is handled as
\* in NoStore mode whatever the configured mode: it is never looked up and is
\* sent to the network.
C16_CondHeaderAnyMode ==
    (call.pc # "idle" /\ has_cond_header(call.incoming)) =>
        /\ call.pc # "matched"
        /\ call.lookups = 0
        /\ CacheDone => Len(call.remote) = 1

\* C16 amended: when the configured mode is Default, a request that carries
\* a conditional header (its own or one of the middleware's configured
\* headers) is handled as in NoStore mode: no lookup, one network send.  In
\* every other configured mode the send keeps the configured mode.
C16_CondHeaderInDefault ==
    call.pc # "idle" =>
        /\ (cacache.cache_mode = "Default" /\ has_cond_header(call.req.headers)) =>
               /\ call.cache_mode = "NoStore"
               /\ call.pc # "matched"
               /\ call.lookups = 0
               /\ call.hit = NoEntry
               /\ CacheDone => call.remote = << call.req >>
        /\ (cacache.cache_mode # "Default" \/ ~has_cond_header(call.req.headers)) =>
               call.cache_mode = cacache.cache_mode

C16_Witness ==
    /\ CacheDone
    /\ cacache.cache_mode = "Default"
    /\ call.req.method = "GET"
    /\ call.incoming = {"accept", "If-Range"}
    /\ store[cache_key(call.req)] # NoEntry
    /\ call.lookups = 0
    /\ Len(call.remote) = 1

C18_WarningsStripped ==
    Hit =>
        \A code \in WarnCodes(call.hit) :
            /\ (code >= 100 /\ code <= 199) => code \notin WarnCodes(call.res)
            /\ (code >= 200 /\ code <= 299) => code \in WarnCodes(call.res)

\* C19: on a hit in ForceCache or OnlyIfCached mode the send returns the
\* stored entry, fresh or stale, with a 112 warning added, and sends nothing
\* to the network.
C19_OfflineHit ==
    (/\ CacheDone
     /\ call.cache_mode \in {"ForceCache", "OnlyIfCached"}
     /\ Hit) =>
        /\ call.pc = "done"
        /\ call.result.tag = "ok"
        /\ call.result.via = "cache"
        /\ 112 \in WarnCodes(call.result.res)
        /\ call.remote = <<>>

\* C20: on a hit in NoCache mode, or in Default mode with an entry that is
\* not fresh, the send returns only after one conditional request carrying
\* the entry's validator went to the network, and what it returns is the
\* entry merged with a 304 answer or the 200 answer that replaced it.
C20_Revalidates ==
    (/\ CacheDone
     /\ Hit
     /\ \/ call.cache_mode = "NoCache"
        \/ call.cache_mode = "Default" /\ ~Fresh(call.hit)) =>
        /\ call.pc = "done"
        /\ Len(call.remote) = 1
        /\ "if-none-match" \in call.remote[1].headers
        /\ call.result.tag = "ok"
        /\ store[cache_key(call.req)] # NoEntry

\* What the claims call a cacheable response: 2xx to a GET or HEAD, without
\* a no-store directive
Cacheable(req, res) ==
    /\ res.status >= 200 /\ res.status <= 299
    /\ req.method \in {"GET", "HEAD"}
    /\ res.cache_control # "no-store"

\* C21: a send that looked up and found nothing, in a mode other than
\* OnlyIfCached, and whose one send_remote was answered, returns that answer;
\* when the answer is cacheable the store holds it under the key of the
\* request by then, and when it is not the store is as it was.
C21_MissStoresCacheable ==
    (/\ CacheDone
     /\ call.lookups = 1
     /\ call.hit = NoEntry
     /\ call.cache_mode # "OnlyIfCached"
     /\ call.net # NoEntry
     /\ call.net # NetErr) =>
        /\ call.pc = "done"
        /\ call.remote = << call.req >>
        /\ call.result.tag = "ok"
        /\ call.result.res = call.net
        /\ Cacheable(call.req, call.net) => store[cache_key(call.req)] = call.net

\* C22: the key of a request is determined by its method and its URL and by
\* nothing else, and differs when either differs: a put that reads back what
\* its key names shares the key only with puts for the same method and the
\* same URL.
C22_KeyPerMethodAndUrl ==
    \A w, v \in WriterIds :
        (/\ writers[w].pc = "done"
         /\ writers[w].result.tag = "ok"
         /\ writers[v].order > 0
         /\ cache_key(writers[w].req) = cache_key(writers[v].req)) =>
            /\ writers[w].req.method = writers[v].req.method
            /\ writers[w].req.uri = writers[v].req.uri

\* The response a Compression::handle got from the rest of the chain
ZGot(res) == zip.pc = "done" /\ zip.passes = 1 /\ zip.got = ZOk(res)

\* C23: every request Compression hands to the rest of the chain carries the
\* one Accept-Encoding value "gzip, br, deflate, zstd", whatever the caller
\* had set.
C23_AcceptEncodingFixed ==
    zip.pc # "idle" => zip.sent = << SUPPORTED_ENCODINGS >>

C23_Witness == zip.pc = "await" /\ zip.req = << "gzip", "br" >>

BrOutermost == Compressed(<<"Gzip", "Brotli">>, Plain("lorem"))
GzipOutermost == Compressed(<<"Brotli", "Gzip">>, Plain("lorem"))

\* C24 as stated: a body compressed with gzip and then with br, under
\* Content-Encoding: br, gzip, is decoded br first and gzip second, comes
\* back as the plaintext, and the header is gone.
C24_BrFirstThenGzip ==
    ZGot(ZResponse(200, << "br", " gzip" >>, BrOutermost)) =>
        /\ zip.result.tag = "ok"
        /\ zip.applied = << "Brotli", "Gzip" >>
        /\ zip.result.res.body = Plain("lorem")
        /\ zip.result.res.content_encoding = NoHeader

\* C24 amended: a body compressed with br and then with gzip (gzip applied
\* last), under Content-Encoding: br, gzip, is decoded gzip first and br
\* second, comes back as the plaintext, and the header is gone.
C24_GzipFirstThenBr ==
    ZGot(ZResponse(200, << "br", " gzip" >>, GzipOutermost)) =>
        /\ zip.result.tag = "ok"
        /\ zip.applied = << "Gzip", "Brotli" >>
        /\ zip.result.res.body = Plain("lorem")
        /\ zip.result.res.content_encoding = NoHeader

C24_Witness ==
    /\ ZGot(ZResponse(200, << "br", " gzip" >>, GzipOutermost))
    /\ zip.result.res.body = Plain("lorem")

\* The lists of encodings a server applies and names
Listings == SeqsUpTo(Encoding, MaxEncodings) \ {<<>>}

\* C25: for every list e1..en of supported encodings that the server applies
\* in that order and names in that order, the decoders run in the reverse
\* order, en first, and the body comes back as the plaintext.
C25_ReverseOrderRestores ==
    \A e \in Listings :
        ZGot(Stub(e)) =>
            /\ zip.result.tag = "ok"
            /\ zip.applied = Reverse(e)
            /\ zip.result.res.body = Plain("lorem")

C25_Witness ==
    /\ ZGot(Stub(<< "Deflate", "Zstd" >>))
    /\ zip.applied = << "Zstd", "Deflate" >>

\* The pieces of a Content-Encoding value, trimmed
Tokens(hval) == [i \in DOMAIN hval |-> trim(hval[i])]
UnknownToken(hval) ==
    /\ hval \notin {NoHeader, Opaque}
    /\ \E i \in DOMAIN hval : ~parse_encoding(Tokens(hval)[i]).ok

\* C26: when a token of Content-Encoding, trimmed, is none of gzip, deflate,
\* br, zstd, identity, Compression returns an error: no panic, no response.
C26_UnknownTokenIsError ==
    (/\ zip.pc = "done"
     /\ zip.passes = 1
     /\ zip.got.tag = "ok"
     /\ UnknownToken(zip.got.res.content_encoding)) =>
        zip.result.tag = "err"

\* C27: a response without Content-Encoding comes back from Compression with
\* its status, its headers and its body as they were.
C27_NoHeaderUnchanged ==
    (/\ zip.pc = "done"
     /\ zip.passes = 1
     /\ zip.got.tag = "ok"
     /\ zip.got.res.content_encoding = NoHeader) =>
        zip.result = zip.got

C27_Witness ==
    /\ ZGot(ZResponse(404, NoHeader, Plain("")))
    /\ zip.result = zip.got

\* C28: a decode that ran its decoders and returned a response, one whose
\* Content-Encoding was only identity included, leaves no Content-Encoding
\* header, and a second decode of what it returned changes nothing.
C28_DecodeIdempotent ==
    (zip.pc = "done" /\ zip.decoded) =>
        /\ zip.passes = 1 =>
               /\ zip.result.tag = "ok"
               /\ zip.result.res.content_encoding = NoHeader
        /\ zip.passes = 2 =>
               /\ zip.before.res.content_encoding = NoHeader
               /\ zip.result = zip.before

C28_Witness ==
    /\ zip.pc = "done"
    /\ zip.decoded
    /\ zip.passes = 2
    /\ zip.got = ZOk(Stub(<< "Identity" >>))
    /\ zip.result = zip.before

\* The puts that have committed under key k
Committers(k) ==
    {w \in WriterIds : writers[w].order > 0 /\ cache_key(writers[w].req) = k}

\* C30: whatever the interleaving of the writes of two puts under one key,
\* the key names one whole response: the status, the headers (as put stores
\* them) and the body of the put that committed last; a key no put has
\* committed under names nothing.
C30_LastWriterWins ==
    \A k \in DOMAIN store :
        IF Committers(k) = {} THEN store[k] = NoEntry
        ELSE \E w \in Committers(k) :
                 /\ \A v \in Committers(k) : writers[v].order <= writers[w].order
                 /\ store[k] = Stored(writers[w].res)

C30_Witness ==
    /\ \A w \in WriterIds : writers[w].pc = "done" /\ writers[w].order > 0
    /\ cache_key(writers["w1"].req) = cache_key(writers["w2"].req)
    /\ writers["w1"].res # writers["w2"].res
    /\ writers["w2"].overlap
    /\ writers["w1"].order = 2
    /\ store[cache_key(writers["w1"].req)] = Stored(writers["w1"].res)

\* The Client::send futures, the one being polled first
Sends == << Context(stack, ret, trace, outcome, cur) >> \o parked
Finished(x) == x.stack = <<>> /\ x.outcome # NoRet
StackOf(x) == x.cur.clientMw \o x.cur.reqMw

\* C29: of the sends that run at once on one Client, each one that has
\* finished entered the handlers of its own stack (the Client's list, then
\* its request's list) once each and in order, left them in the opposite
\* order, called the HttpClient once, and got what that call returned with
\* the marks of its own stack; while a send is in flight the Client's list
\* is the one the send started with.
C29_ConcurrentSendsIndependent ==
    \A k \in DOMAIN Sends :
        LET x == Sends[k]
            en == SelectSeq(x.trace, IsEnter)
            ex == SelectSeq(x.trace, IsExit)
            tr == SelectSeq(x.trace, IsTransport)
        IN  /\ Finished(x) =>
                /\ Names(en) = StackOf(x)
                /\ Names(ex) = Reverse(StackOf(x))
                /\ Len(tr) = 1
                /\ \A i \in DOMAIN en :
                       en[i].next = SubSeq(StackOf(x), i + 1, Len(StackOf(x)))
                /\ x.trace[Len(StackOf(x)) + 1].ev = "transport"
                /\ x.outcome = [tr[1].res EXCEPT !.ext =
                       IF tr[1].res.tag = "ok"
                       THEN Range(StackOf(x)) \cap Markers ELSE {}]
            /\ x.stack # <<>> => Vec(x.cur.client) = x.cur.clientMw

C29_Witness ==
    /\ Len(parked) >= 1
    /\ Finished(Sends[1])
    /\ Finished(Sends[2])
    /\ Sends[1].cur.overlap
    /\ StackOf(Sends[1]) = << "A" >>
    /\ StackOf(Sends[2]) = << "A", "A" >>
    /\ Sends[1].outcome.tag = "err"
    /\ Sends[2].outcome.tag = "ok"
    /\ Sends[2].outcome.status = 200

\* C31: a body is read at most once: a read that comes after body_bytes or
\* take_body consumed the body succeeds and returns no bytes.
C31_ReadOnce ==
    \A i \in DOMAIN bodies.log :
        bodies.log[i].after =>
            /\ bodies.log[i].tag = "ok"
            /\ bodies.log[i].bytes = <<>>

\* C32: every header added to the Config of a Client is on every request
\* of that Client that the HttpClient receives.
C32_ConfigHeadersOnEveryRequest ==
    conf.pc = "sent" =>
        \A h \in ConfigHeaderNames :
            conf.headers[h] # <<>> => conf.sent[h] # <<>>

\* A probe that ends the handle call with an error: the HttpClient failed,
\* or the redirect's Location does not parse
ProbeFailed(r) ==
    \/ r.tag = "err"
    \/ /\ r.status \in REDIRECT_CODES
       /\ r.loc # NoLoc
       /\ ~UrlParse(r.loc).ok

\* A probe answered with a redirect code and no Location
NoLocation(e) ==
    /\ IsProbe(e)
    /\ e.res.tag = "ok"
    /\ e.res.status \in REDIRECT_CODES
    /\ e.res.loc = NoLoc

C34_ForwardedAsReceived ==
    /\ \A i \in DOMAIN stack :
           LET sent == IF \E j \in 2..i : stack[j].mw = "send"
                       THEN RequestClone(stack[1].req)
                       ELSE stack[1].req
           IN  /\ stack[i].req = [sent EXCEPT !.url = stack[i].req.url]
               /\ (stack[i].mw = "R" /\ i < Len(stack)) =>
                      /\ (stack[i].pc = "final" /\ stack[i + 1].pc = "start") =>
                             stack[i + 1].req = stack[i].req
                      /\ stack[i].pc = "probe" =>
                             stack[i + 1].req = RequestClone(stack[i].req)
    /\ \A k \in DOMAIN trace :
           trace[k].ev = "transport" =>
               /\ trace[k].method = cur.method
               /\ trace[k].headers = ReqHeaders
               /\ trace[k].body = (IF trace[k].depth = 1 THEN ReqBody ELSE EmptyBody)

C34_Witness ==
    /\ Done
    /\ CurStack = <<"R">>
    /\ Len(TransportCalls) = 2
    /\ IsProbe(TransportCalls[1])
    /\ TransportCalls[1].body = EmptyBody
    /\ TransportCalls[1].res.status = 302
    /\ TransportCalls[2].depth = 1
    /\ TransportCalls[2].url = "http://h/a"
    /\ TransportCalls[2].url # TransportCalls[1].url
    /\ TransportCalls[2].body = ReqBody
    /\ TransportCalls[2].headers = ReqHeaders

\* C35: every handle call and the endpoint are given a Client whose list is
\* empty, so a Client::send a middleware makes on it has an empty stack and
\* calls the HttpClient next: no handle is entered inside it, and no send is
\* nested deeper than that.
C35_HandleClientHasNoMiddleware ==
    /\ \A i \in DOMAIN stack :
           /\ stack[i].client.middleware = <<>>
           /\ (stack[i].mw = "send" /\ i > 1) =>
                  /\ stack[i].next = <<>>
                  /\ i < Len(stack) =>
                         i + 1 = Len(stack) /\ stack[i + 1].mw = "endpoint"
    /\ Depth <= 2
    /\ \A k \in DOMAIN trace :
           trace[k].depth = 2 =>
               trace[k].ev = "transport" /\ trace[k].next = <<>>

C35_Witness ==
    /\ Len(stack) = 5
    /\ stack[1].next = <<"A", "R">>
    /\ stack[3].mw = "R"
    /\ stack[3].pc = "probe"
    /\ stack[4].mw = "send"
    /\ stack[5].mw = "endpoint"
    /\ Depth = 2
    /\ Names(Enters) = <<"A", "R">>

\* C36: a send leaves the Client's list as with() made it, whatever the
\* request carried: the stack of the send is that list followed by the
\* request's, and a send without middleware of its own that follows one
\* with some enters the Client's middleware and no other.
C36_SendKeepsClientList ==
    /\ \A c \in ClientIds : clients[c].live => Vec(c) = ownLog[c]
    /\ Running => stack[1].next = ownLog[cur.client] \o cur.reqMw
    /\ (Done /\ cur.after /\ cur.reqMw = <<>>) =>
           /\ Range(Names(Enters)) \subseteq Range(ownLog[cur.client])
           /\ AllPassThrough => Names(Enters) = ownLog[cur.client]

C36_Witness ==
    /\ Done
    /\ nsends = 2
    /\ cur.after
    /\ cur.reqMw = <<>>
    /\ ownLog[cur.client] = <<"A", "B">>
    /\ Names(Enters) = <<"A", "B">>
    /\ outcome.ext = {"A", "B"}

\* C37: a send in NoStore mode, configured or coerced, that the network
\* answered returns that answer, and no step of it changes the store.
C37_NoStoreReturnsNetwork ==
    /\ [](( /\ CacheDone
            /\ call.cache_mode = "NoStore"
            /\ call.net # NoEntry
            /\ call.net # NetErr) =>
               /\ call.pc = "done"
               /\ call.result = CacheOk(call.net, "network"))
    /\ [][(call.pc \in {"matched", "remote"} /\ call.cache_mode = "NoStore") =>
               store' = store]_vars

\* C38: a put that no other put shares its key with returns, and leaves
\* under the key, the status, every value of every header and the body of
\* the response it was given.
C38_PutRoundTrip ==
    \A w \in WriterIds :
        (/\ writers[w].pc = "done"
         /\ writers[w].result.tag = "ok"
         /\ Committers(cache_key(writers[w].req)) = {w}) =>
            /\ store[cache_key(writers[w].req)] = writers[w].res
            /\ writers[w].result.res = writers[w].res

\* C40: a put that has returned gives its caller the status, the body and
\* the headers (here those that have one value) of the response it was
\* called with, whatever another put under the same key did meanwhile.
C40_ReturnsOwnResponse ==
    \A w \in WriterIds :
        (writers[w].pc = "done" /\ writers[w].result.tag = "ok") =>
            /\ writers[w].result.res.status = writers[w].res.status
            /\ writers[w].result.res.body = writers[w].res.body
            /\ writers[w].result.res.etag = writers[w].res.etag
            /\ writers[w].result.res.cache_control = writers[w].res.cache_control
            /\ writers[w].result.res.warning = writers[w].res.warning

====
